---------------------------- MODULE Spec2Model ----------------------------
(***************************************************************************)
(* A model of the query-analysis and metrics engine of SKYLARK_DRONES     *)
(* (query_engine.py, data_processor.py, agent.py, monday_client.py).      *)
(*                                                                         *)
(* Text is a sequence of one-character strings, so that lower-casing,      *)
(* stripping, substring search, regular-expression search and number and  *)
(* date parsing are computed character by character, as the code does.    *)
(* A DataFrame is a record [columns, rows]; a row carries its index label *)
(* and its cells in column order.                                          *)
(***************************************************************************)
EXTENDS Integers, Sequences, FiniteSets, TLC

VARIABLES
    cache,   \* query_engine._cache: source name -> object id of the cached DataFrame (NoObj: absent)
    heap,    \* the DataFrame objects: object id -> table (NoTable: free)
    held,    \* the DataFrame the caller got from its last get: its object id and source (NoHeld: none)
    stored,  \* history: per source, the table stored at its last population (NoTable: never)
    last,    \* history: the last cache operation and what it did
    pc,      \* which function the next step applies ("done" afterwards)
    arg,     \* the arguments of that function
    ret      \* its return value

vars == <<cache, heap, held, stored, last, pc, arg, ret>>

-----------------------------------------------------------------------------
(* Bounds of the model *)

\* the most rows of a table given to a filter or a metric
MaxRows == 2

-----------------------------------------------------------------------------
(* Text *)

UpperChars == <<"A","B","C","D","E","F","G","H","I","J","K","L","M","N","O","P","Q","R","S","T","U","V","W","X","Y","Z">>
LowerChars == <<"a","b","c","d","e","f","g","h","i","j","k","l","m","n","o","p","q","r","s","t","u","v","w","x","y","z">>

\* a missing value (None / NaN) in a cell: no character sequence
NaN == <<"<NaN>">>

\* the absence of an optional text argument or result (Python None)
None == <<"<None>">>

\* str.lower() on one character
LowerChar(c) ==
    IF \E i \in 1..Len(UpperChars) : UpperChars[i] = c
    THEN LowerChars[CHOOSE i \in 1..Len(UpperChars) : UpperChars[i] = c]
    ELSE c

\* str.lower()
lower(s) == [i \in 1..Len(s) |-> LowerChar(s[i])]

\* Python's `needle in hay` for strings
Contains(hay, needle) ==
    \E i \in 0..(Len(hay) - Len(needle)) :
        SubSeq(hay, i + 1, i + Len(needle)) = needle

\* re.search(pat, text) for a pattern of literal characters and ".", the wildcard
RegexSearch(pat, text) ==
    \E i \in 0..(Len(text) - Len(pat)) :
        \A j \in 1..Len(pat) : pat[j] = "." \/ pat[j] = text[i + j]

\* Series.str.lower().str.contains(pat, na=False): regex=True is the default
StrContains(value, pat) ==
    IF value = NaN THEN FALSE ELSE RegexSearch(pat, lower(value))

\* any(term in col.lower() for term in terms)
AnyTermIn(terms, text) == \E t \in terms : Contains(lower(text), t)

-----------------------------------------------------------------------------
(* Column names and keyword sets of the code *)

col_ItemName == <<"I","t","e","m"," ","N","a","m","e">>
col_Sector == <<"S","e","c","t","o","r">>
col_SectorService == <<"S","e","c","t","o","r","/","s","e","r","v","i","c","e">>
col_DealStage == <<"D","e","a","l"," ","S","t","a","g","e">>
col_DealStatus == <<"D","e","a","l"," ","S","t","a","t","u","s">>
col_ExecutionStatus == <<"E","x","e","c","u","t","i","o","n"," ","S","t","a","t","u","s">>
col_MaskedDealValue == <<"M","a","s","k","e","d"," ","D","e","a","l"," ","v","a","l","u","e">>
col_Amount == <<"A","m","o","u","n","t"," ","i","n"," ","R","u","p","e","e","s"," ","(","E","x","c","l"," ","o","f"," ","G","S","T",")"," ","(","M","a","s","k","e","d",")">>
col_Billed == <<"B","i","l","l","e","d"," ","V","a","l","u","e"," ","i","n"," ","R","u","p","e","e","s"," ","(","E","x","c","l"," ","o","f"," ","G","S","T",".",")"," ","(","M","a","s","k","e","d",")">>
col_CloseDate == <<"C","l","o","s","e"," ","D","a","t","e">>

kw_sector == <<"s","e","c","t","o","r">>
kw_status == <<"s","t","a","t","u","s">>
kw_stage == <<"s","t","a","g","e">>
kw_state == <<"s","t","a","t","e">>
kw_date == <<"d","a","t","e">>
kw_value == <<"v","a","l","u","e">>
kw_amount == <<"a","m","o","u","n","t">>
kw_revenue == <<"r","e","v","e","n","u","e">>
kw_total == <<"t","o","t","a","l">>
kw_price == <<"p","r","i","c","e">>

SectorTerms == {kw_sector}
StatusTerms == {kw_status, kw_stage, kw_state}
DateTerms == {kw_date}
RevenueTerms == {kw_value, kw_amount, kw_revenue, kw_total, kw_price}

-----------------------------------------------------------------------------
(* DataFrames *)

\* the two data sources, by their keys in _cache
Sources == {"work_orders", "deals"}

\* names of DataFrame objects: two cached, one held by the caller, one being built
ObjIds == 1..4

NoObj == 0
NoTable == [columns |-> <<>>, rows |-> <<>>, free |-> TRUE]
NoRet == [kind |-> "none"]
NoHeld == [obj |-> NoObj, source |-> "none"]
NoCall == [op |-> "none", source |-> "none", force |-> FALSE, cached |-> FALSE,
           fetches |-> 0, failing_page |-> 0, outcome |-> "none"]

\* the loop without its break: the last column with a term in its name
FindColumn_last(df, terms) ==
    LET hits == {i \in 1..Len(df.columns) : AnyTermIn(terms, df.columns[i])}
    IN  IF hits = {} THEN 0 ELSE CHOOSE i \in hits : \A k \in hits : i >= k

\* for col in df.columns: if any(term in col.lower() ...): found = col; break
\* the position of the first such column, 0 when the loop ends without one
FindColumn(df, terms) ==
    LET hits == {i \in 1..Len(df.columns) : AnyTermIn(terms, df.columns[i])}
    IN  IF hits = {} THEN 0 ELSE CHOOSE i \in hits : \A k \in hits : i <= k

\* the position of the column named name, 0 when name not in df.columns
ColumnAt(df, name) ==
    LET hits == {i \in 1..Len(df.columns) : df.columns[i] = name}
    IN  IF hits = {} THEN 0 ELSE CHOOSE i \in hits : \A k \in hits : i <= k

\* the index labels of a table's rows, in order
IndexOf(df) == [i \in 1..Len(df.rows) |-> df.rows[i].index]

\* a RangeIndex table over the given columns and cell rows
MakeTable(columns, cellRows) ==
    [columns |-> columns,
     rows |-> [i \in 1..Len(cellRows) |-> [index |-> i - 1, cells |-> cellRows[i]]]]

\* all sequences over S of length at most n
SeqsUpTo(S, n) == UNION {[1..k -> S] : k \in 0..n}

-----------------------------------------------------------------------------
(* query_engine.filter_by_sector *)

filter_by_sector(df, sector) ==
    LET sector_col == FindColumn(df, SectorTerms)
        Mask(r) == StrContains(r.cells[sector_col], lower(sector))
    IN  IF sector_col = 0 THEN df ELSE [df EXCEPT !.rows = SelectSeq(df.rows, Mask)]

txt_Mining == <<"M","i","n","i","n","g">>
txt_RenewablesSolar == <<"R","e","n","e","w","a","b","l","e","s"," ","-"," ","S","o","l","a","r">>
txt_Urban == <<"U","r","b","a","n">>
txt_MINING == <<"M","I","N","I","N","G">>
txt_mining == <<"m","i","n","i","n","g">>
txt_renewables == <<"r","e","n","e","w","a","b","l","e","s">>
txt_mDotN == <<"m",".","n">>
txt_URBAN == <<"U","R","B","A","N">>
txt_Dot == <<".">>
txt_Empty == <<>>
txt_Item == <<"W","O">>

\* sector cells: text as clean_dataframe leaves it ("" for a missing value), and NaN
SectorCells == {txt_Empty, NaN, txt_Mining, txt_MINING, txt_RenewablesSolar, txt_Urban}

\* sector keywords: non-empty (agent.py applies the filter only `if sector_filter:`);
\* "." is the one regular-expression metacharacter among their characters
SectorKeywords == {txt_mining, txt_renewables, txt_URBAN, txt_mDotN, txt_Dot}

SectorLayouts == {<<col_ItemName, col_Sector>>, <<col_ItemName, col_SectorService>>,
                  <<col_ItemName, col_DealStage>>}

SectorTables ==
    {MakeTable(cols, [i \in 1..Len(vs) |-> <<txt_Item, vs[i]>>]) :
        cols \in SectorLayouts, vs \in SeqsUpTo(SectorCells, MaxRows)}

\* the cache as the module leaves it at import: empty, nothing fetched yet
IdleCache ==
    /\ cache = [s \in Sources |-> NoObj]
    /\ heap = [o \in ObjIds |-> NoTable]
    /\ held = NoHeld
    /\ stored = [s \in Sources |-> NoTable]
    /\ last = NoCall

cacheVars == <<cache, heap, held, stored, last>>

InitSector ==
    /\ IdleCache
    /\ pc = "filter_by_sector"
    /\ arg \in [df : SectorTables, sector : SectorKeywords]
    /\ ret = NoRet

CallFilterBySector ==
    /\ pc = "filter_by_sector"
    /\ ret' = [kind |-> "table", df |-> filter_by_sector(arg.df, arg.sector)]
    /\ pc' = "done"
    /\ UNCHANGED <<arg, cacheVars>>

NextSector == CallFilterBySector

SpecSector == InitSector /\ [][NextSector]_vars

\* the position of the sector column of the table given to filter_by_sector
SectorColOfArg == FindColumn(arg.df, SectorTerms)

\* C4: every row of filter_by_sector(T, s) has a sector value that contains s
\* case-insensitively, every such row of T is kept in its original order, and no
\* row with an empty sector value is in the result.
C4_SectorFilterIsSubstringMatch ==
    (pc = "done" /\ SectorColOfArg # 0) =>
        LET c == SectorColOfArg
            s == lower(arg.sector)
            HasS(r) == r.cells[c] # NaN /\ Contains(lower(r.cells[c]), s)
        IN  /\ \A i \in 1..Len(ret.df.rows) :
                  /\ HasS(ret.df.rows[i])
                  /\ ret.df.rows[i].cells[c] \notin {txt_Empty, NaN}
            /\ ret.df.rows = SelectSeq(arg.df.rows, HasS)

-----------------------------------------------------------------------------
(* Numbers and dates in text *)

Digits == <<"0","1","2","3","4","5","6","7","8","9">>

IsDigit(c) == \E i \in 1..10 : Digits[i] = c

DigitValue(c) == (CHOOSE i \in 1..10 : Digits[i] = c) - 1

AllDigits(s) == \A i \in 1..Len(s) : IsDigit(s[i])

\* the number a non-empty sequence of digits writes
RECURSIVE Decimal(_)
Decimal(s) ==
    IF Len(s) = 0 THEN 0
    ELSE Decimal(SubSeq(s, 1, Len(s) - 1)) * 10 + DigitValue(s[Len(s)])

\* pd.to_datetime(..., errors='coerce') of a value that is no date
NaT == -1

IsLeap(y) == (y % 4 = 0 /\ y % 100 # 0) \/ y % 400 = 0

DaysInMonth(y, m) ==
    IF m = 2 THEN (IF IsLeap(y) THEN 29 ELSE 28)
    ELSE IF m \in {4, 6, 9, 11} THEN 30 ELSE 31

\* the days of the months of year y before month m
RECURSIVE DaysBefore(_, _)
DaysBefore(y, m) == IF m = 1 THEN 0 ELSE DaysBefore(y, m - 1) + DaysInMonth(y, m - 1)

\* pd.to_datetime(text, errors='coerce') on text that is empty, an ISO date
\* YYYY-MM-DD or something else: the date as a day number (366 per year slot, so
\* that the order of day numbers is the order of dates), NaT when it is no date
to_datetime(text) ==
    IF /\ text # NaN
       /\ Len(text) = 10
       /\ text[5] = "-" /\ text[8] = "-"
       /\ AllDigits(SubSeq(text, 1, 4)) /\ AllDigits(SubSeq(text, 6, 7))
       /\ AllDigits(SubSeq(text, 9, 10))
    THEN LET y == Decimal(SubSeq(text, 1, 4))
             m == Decimal(SubSeq(text, 6, 7))
             d == Decimal(SubSeq(text, 9, 10))
         IN  IF y >= 1 /\ m \in 1..12 /\ d >= 1 /\ d <= DaysInMonth(y, m)
             THEN y * 366 + DaysBefore(y, m) + d
             ELSE NaT
    ELSE NaT

\* a cell of a column converted by pd.to_datetime: a Timestamp or NaT
TimestampCell(t) == IF t = NaT THEN <<"<NaT>">> ELSE <<"<Timestamp>", ToString(t)>>

\* Python truthiness of an optional text argument (None and "" are falsy)
Given(x) == x # None /\ x # <<>>

-----------------------------------------------------------------------------
(* query_engine.filter_by_date_range *)

\* filter_by_date_range with the upper bound exclusive (< for <=) and NaT never
\* filtered out by it
filter_by_date_range_exclusive_end(df, start_date, end_date, date_column) ==
    LET found == FindColumn(df, DateTerms)
        column == IF date_column = None
                  THEN (IF found = 0 THEN None ELSE df.columns[found])
                  ELSE date_column
        c == ColumnAt(df, column)
        Converted(r) == [r EXCEPT !.cells[c] = TimestampCell(to_datetime(r.cells[c]))]
        AfterStart(r) == to_datetime(r.cells[c]) # NaT
                            /\ to_datetime(r.cells[c]) >= to_datetime(start_date)
        BeforeEnd(r) == to_datetime(r.cells[c]) < to_datetime(end_date)
        rows1 == IF Given(start_date) THEN SelectSeq(df.rows, AfterStart) ELSE df.rows
        rows2 == IF Given(end_date) THEN SelectSeq(rows1, BeforeEnd) ELSE rows1
    IN  IF ~Given(column) \/ c = 0 THEN df
        ELSE [df EXCEPT !.rows = [i \in 1..Len(rows2) |-> Converted(rows2[i])]]

filter_by_date_range(df, start_date, end_date, date_column) ==
    LET found == FindColumn(df, DateTerms)
        column == IF date_column = None
                  THEN (IF found = 0 THEN None ELSE df.columns[found])
                  ELSE date_column
        c == ColumnAt(df, column)
        \* df = df.copy(); df[date_column] = pd.to_datetime(df[date_column], errors='coerce')
        Converted(r) == [r EXCEPT !.cells[c] = TimestampCell(to_datetime(r.cells[c]))]
        \* df = df[df[date_column] >= start]: a comparison with NaT is False
        AfterStart(r) == to_datetime(r.cells[c]) # NaT
                            /\ to_datetime(r.cells[c]) >= to_datetime(start_date)
        \* df = df[df[date_column] <= end]
        BeforeEnd(r) == to_datetime(r.cells[c]) # NaT
                            /\ to_datetime(r.cells[c]) <= to_datetime(end_date)
        rows1 == IF Given(start_date) THEN SelectSeq(df.rows, AfterStart) ELSE df.rows
        rows2 == IF Given(end_date) THEN SelectSeq(rows1, BeforeEnd) ELSE rows1
    IN  IF ~Given(column) \/ c = 0 THEN df
        ELSE [df EXCEPT !.rows = [i \in 1..Len(rows2) |-> Converted(rows2[i])]]

txt_NA == <<"N","/","A">>
d_2025_12_31 == <<"2","0","2","5","-","1","2","-","3","1">>
d_2026_01_01 == <<"2","0","2","6","-","0","1","-","0","1">>
d_2026_02_30 == <<"2","0","2","6","-","0","2","-","3","0">>
d_2026_03_31 == <<"2","0","2","6","-","0","3","-","3","1">>
d_2026_04_01 == <<"2","0","2","6","-","0","4","-","0","1">>

\* date cells: empty, text that is no date, a day that does not exist, and dates
\* before, on and after the bounds below
DateCells == {txt_Empty, txt_NA, d_2026_02_30, d_2025_12_31, d_2026_01_01,
              d_2026_03_31, d_2026_04_01}

DateLayouts == {<<col_ItemName, col_CloseDate>>, <<col_ItemName, col_Sector>>}

DateTables ==
    {MakeTable(cols, [i \in 1..Len(vs) |-> <<txt_Item, vs[i]>>]) :
        cols \in DateLayouts, vs \in SeqsUpTo(DateCells, MaxRows)}

InitDate ==
    /\ IdleCache
    /\ pc = "filter_by_date_range"
    /\ arg \in [df : DateTables,
                start_date : {None, d_2026_01_01},
                end_date : {None, d_2026_03_31},
                date_column : {None, col_CloseDate}]
    /\ ret = NoRet

CallFilterByDateRange ==
    /\ pc = "filter_by_date_range"
    /\ ret' = [kind |-> "table",
               df |-> filter_by_date_range(arg.df, arg.start_date, arg.end_date,
                                           arg.date_column)]
    /\ pc' = "done"
    /\ UNCHANGED <<arg, cacheVars>>

NextDate == CallFilterByDateRange

SpecDate == InitDate /\ [][NextDate]_vars

\* the position of the date column filter_by_date_range resolves for its arguments
DateColOfArg ==
    IF arg.date_column = None THEN FindColumn(arg.df, DateTerms)
    ELSE ColumnAt(arg.df, arg.date_column)

\* the rows of the argument table with a date inside the given bounds
RowsInRange(mustParse) ==
    LET c == DateColOfArg
        InRange(r) ==
            LET d == to_datetime(r.cells[c])
            IN  /\ mustParse => d # NaT
                /\ Given(arg.start_date) => (d # NaT /\ to_datetime(arg.start_date) <= d)
                /\ Given(arg.end_date) => (d # NaT /\ d <= to_datetime(arg.end_date))
    IN  SelectSeq(arg.df.rows, InRange)

\* C5 as stated: filter_by_date_range keeps exactly the rows whose date value
\* parses as a date d with start <= d when start is given and d <= end when end is
\* given; an empty or unparseable date never matches a bound; with no date column
\* the table is returned unchanged.
C5_KeepsExactlyParsedRowsInRange ==
    pc = "done" =>
        IF DateColOfArg = 0 THEN ret.df = arg.df
        ELSE IndexOf(ret.df) = [i \in 1..Len(RowsInRange(TRUE)) |-> RowsInRange(TRUE)[i].index]

\* C5 amended: when at least one bound is given, filter_by_date_range keeps exactly
\* the rows whose date value parses as a date d with start <= d when start is given
\* and d <= end when end is given (inclusive, in the original order), so no empty
\* or unparseable date is kept; when no bound is given every row is kept, parseable
\* or not; with no date column the table is returned unchanged.
C5_KeepsRowsInRangeWhenBounded ==
    pc = "done" =>
        IF DateColOfArg = 0 THEN ret.df = arg.df
        ELSE LET bounded == Given(arg.start_date) \/ Given(arg.end_date)
                 kept == RowsInRange(bounded)
             IN  /\ IndexOf(ret.df) = [i \in 1..Len(kept) |-> kept[i].index]
                 /\ ~bounded => Len(ret.df.rows) = Len(arg.df.rows)

\* both bounds are given, a row dated on the upper bound is kept and a row whose
\* date does not parse is dropped
C5_Witness ==
    /\ pc = "done" /\ DateColOfArg # 0
    /\ Given(arg.start_date) /\ Given(arg.end_date)
    /\ Len(arg.df.rows) = 2 /\ Len(ret.df.rows) = 1
    /\ \E i \in 1..2 : arg.df.rows[i].cells[DateColOfArg] = arg.end_date
    /\ \E i \in 1..2 : to_datetime(arg.df.rows[i].cells[DateColOfArg]) = NaT

-----------------------------------------------------------------------------
(* monday_client.fetch_board_items and the conversion to a DataFrame *)

\* str.strip(): leading and trailing blanks removed
RECURSIVE Strip(_)
Strip(s) ==
    IF Len(s) = 0 THEN s
    ELSE IF s[1] = " " THEN Strip(Tail(s))
    ELSE IF s[Len(s)] = " " THEN Strip(SubSeq(s, 1, Len(s) - 1))
    ELSE s

Raised == [raised |-> TRUE]

\* the while loop of fetch_board_items from page i on, all_items collected so far:
\* a page that times out or carries an error list raises; a page with a cursor is
\* followed by the next page; the page without a cursor ends the loop
RECURSIVE FetchPages(_, _, _)
FetchPages(remote, i, all_items) ==
    IF remote.pages[i].outcome # "ok" THEN Raised
    ELSE LET items == all_items \o remote.pages[i].items
         IN  IF i < Len(remote.pages) THEN FetchPages(remote, i + 1, items)
             ELSE [raised |-> FALSE, columns |-> remote.columns, items |-> items]

\* the loop with a page that is not served ending it (break for raise): what was
\* collected from the pages before is returned
RECURSIVE FetchPagesPartial(_, _, _)
FetchPagesPartial(remote, i, all_items) ==
    IF remote.pages[i].outcome # "ok"
    THEN [raised |-> FALSE, columns |-> remote.columns, items |-> all_items]
    ELSE LET items == all_items \o remote.pages[i].items
         IN  IF i < Len(remote.pages) THEN FetchPagesPartial(remote, i + 1, items)
             ELSE [raised |-> FALSE, columns |-> remote.columns, items |-> items]

fetch_board_items_partial(remote) == FetchPagesPartial(remote, 1, <<>>)

fetch_board_items(remote) == FetchPages(remote, 1, <<>>)

\* column_map.get(column_id, column_id)
ColumnTitle(columns, id) ==
    IF \E i \in 1..Len(columns) : columns[i].id = id
    THEN columns[CHOOSE i \in 1..Len(columns) : columns[i].id = id].title
    ELSE id

\* pd.DataFrame(records): one row per item, "Item Name" and then one column per
\* column value, named by its title; no item, no column
monday_json_to_dataframe(data) ==
    IF Len(data.items) = 0 THEN MakeTable(<<>>, <<>>)
    ELSE MakeTable(
            <<col_ItemName>> \o
                [k \in 1..Len(data.items[1].column_values) |->
                    ColumnTitle(data.columns, data.items[1].column_values[k].id)],
            [i \in 1..Len(data.items) |->
                <<data.items[i].name>> \o
                    [k \in 1..Len(data.items[i].column_values) |->
                        data.items[i].column_values[k].text]])

\* df.fillna("") and then .astype(str).str.strip() on every text column
CleanCell(text) == IF text = None \/ text = NaN THEN <<>> ELSE Strip(text)

clean_dataframe(df) ==
    [df EXCEPT !.rows =
        [i \in 1..Len(df.rows) |->
            [df.rows[i] EXCEPT !.cells =
                [k \in 1..Len(df.rows[i].cells) |-> CleanCell(df.rows[i].cells[k])]]]]

-----------------------------------------------------------------------------
(* The boards the remote API may hold when a fetch is made *)

txt_WO1 == <<"W","O","-","1">>
txt_WO2 == <<"W","O","-","2">>
txt_D1 == <<"D","e","a","l","-","1">>
txt_D2 == <<"D","e","a","l","-","2">>
txt_UrbanPadded == <<" ","U","r","b","a","n"," ">>
txt_Won == <<"W","o","n">>
txt_Open == <<"O","p","e","n">>

Item(name, id, text) == [name |-> name, column_values |-> <<[id |-> id, text |-> text]>>]

Page(outcome, items) == [outcome |-> outcome, items |-> items]

WorkOrderColumns == <<[id |-> <<"c","1">>, title |-> col_Sector]>>
DealColumns == <<[id |-> <<"c","2">>, title |-> col_DealStatus]>>

WO_A == Item(txt_WO1, <<"c","1">>, txt_Mining)
WO_B == Item(txt_WO2, <<"c","1">>, txt_UrbanPadded)
WO_C == Item(txt_WO2, <<"c","1">>, None)
Deal_A == Item(txt_D1, <<"c","2">>, txt_Won)
Deal_B == Item(txt_D2, <<"c","2">>, txt_Open)

\* what the API answers for a board: its pages in cursor order, each served
\* ("ok"), answered with an error list ("errors") or not answered ("timeout")
RemoteBoards ==
    [work_orders |->
        {[columns |-> WorkOrderColumns, pages |-> ps] : ps \in
            {<<Page("ok", <<WO_A>>), Page("ok", <<WO_B>>)>>,
             <<Page("ok", <<WO_A, WO_C>>)>>,
             <<Page("ok", <<WO_A>>), Page("errors", <<>>)>>,
             <<Page("timeout", <<>>)>>}},
     deals |->
        {[columns |-> DealColumns, pages |-> ps] : ps \in
            {<<Page("ok", <<Deal_A>>), Page("ok", <<Deal_B>>)>>,
             <<Page("ok", <<Deal_B>>)>>,
             <<Page("ok", <<Deal_A>>), Page("timeout", <<>>)>>,
             <<Page("errors", <<>>)>>}}]

\* the first page of the answer that is not served, 0 when every page is
FailingPage(remote) ==
    LET bad == {i \in 1..Len(remote.pages) : remote.pages[i].outcome # "ok"}
    IN  IF bad = {} THEN 0 ELSE CHOOSE i \in bad : \A k \in bad : i <= k

-----------------------------------------------------------------------------
(* query_engine: the cache and the two getters *)

Referenced(c, h) == {c[s] : s \in Sources} \cup {h.obj}

\* a DataFrame object is created under the least name not in use
Fresh(used) == CHOOSE o \in ObjIds \ used : \A k \in ObjIds \ used : o <= k

\* objects neither cached nor held are gone
Collect(hp, c, h) == [o \in ObjIds |-> IF o \in Referenced(c, h) THEN hp[o] ELSE NoTable]

\* no request is made for a cached source without force_refresh, so the API gives
\* no answer
NoRemote == [columns |-> <<>>, pages |-> <<>>]

\* the answers the API may give during a get: one of boards when a request is made
Answers(source, force_refresh, boards) ==
    IF cache[source] # NoObj /\ ~force_refresh THEN {NoRemote} ELSE boards

\* if "<source>" not in _cache or force_refresh:
MustFetch_miss_only(cached, force_refresh) == ~cached

MustFetch(cached, force_refresh) == ~cached \/ force_refresh

\* return _cache["<source>"].copy(): the object handed to the caller
Returned_no_copy(cached, copy) == cached

Returned(cached, copy) == copy

\* lines 21-25 of a getter on the cache c, the objects hp and the history sto, with
\* the caller holding hd: the fetch and the conversion when the source is absent or
\* force_refresh is set, and the assignment to _cache unless the fetch raised
Populate(c, hp, sto, hd, source, force_refresh, remote) ==
    LET fetches == MustFetch(c[source] # NoObj, force_refresh)
        data == fetch_board_items(remote)
        df == clean_dataframe(monday_json_to_dataframe(data))
        new == Fresh(Referenced(c, hd))
    IN  IF ~fetches
        THEN [raised |-> FALSE, fetches |-> 0, cache |-> c, heap |-> hp, stored |-> sto]
        ELSE IF data.raised
        THEN [raised |-> TRUE, fetches |-> 1, cache |-> c, heap |-> hp, stored |-> sto]
        ELSE [raised |-> FALSE, fetches |-> 1,
              cache |-> [c EXCEPT ![source] = new],
              heap |-> [hp EXCEPT ![new] = df],
              stored |-> [sto EXCEPT ![source] = df]]

\* get_work_orders_df / get_deals_df: one body, keyed by the source
GetDf(source, force_refresh, remote) ==
    LET p == Populate(cache, heap, stored, held, source, force_refresh, remote)
        call == [op |-> "get", source |-> source, force |-> force_refresh,
                 cached |-> cache[source] # NoObj,
                 fetches |-> p.fetches,
                 failing_page |-> IF p.fetches = 1 THEN FailingPage(remote) ELSE 0,
                 outcome |-> IF p.raised THEN "raised" ELSE "returned"]
    IN  IF p.raised
        THEN \* the exception leaves the function before _cache is assigned
             /\ last' = call
             /\ UNCHANGED <<cache, heap, held, stored>>
        ELSE LET copy == Fresh(Referenced(p.cache, NoHeld))
                 heap2 == [p.heap EXCEPT ![copy] = p.heap[p.cache[source]]]
                 held1 == [obj |-> Returned(p.cache[source], copy), source |-> source]
             IN  /\ cache' = p.cache
                 /\ held' = held1
                 /\ heap' = Collect(heap2, p.cache, held1)
                 /\ stored' = p.stored
                 /\ last' = call

fnVars == <<pc, arg, ret>>

get_work_orders_df ==
    \E force_refresh \in BOOLEAN :
      \E remote \in Answers("work_orders", force_refresh, RemoteBoards["work_orders"]) :
        /\ GetDf("work_orders", force_refresh, remote)
        /\ UNCHANGED fnVars

get_deals_df ==
    \E force_refresh \in BOOLEAN :
      \E remote \in Answers("deals", force_refresh, RemoteBoards["deals"]) :
        /\ GetDf("deals", force_refresh, remote)
        /\ UNCHANGED fnVars

clear_cache ==
    /\ cache' = [s \in Sources |-> NoObj]
    /\ heap' = Collect(heap, cache', held)
    /\ last' = [NoCall EXCEPT !.op = "clear"]
    /\ UNCHANGED <<held, stored, fnVars>>

\* the caller rebinds its variable to a table computed from the one it holds
Rebind(df) ==
    LET new == Fresh(Referenced(cache, held))
        held1 == [held EXCEPT !.obj = new]
    IN  /\ held' = held1
        /\ heap' = Collect([heap EXCEPT ![new] = df], cache, held1)

\* the caller changes the table it holds in place: df.drop(df.index[0], inplace=True)
CallerDropsRow ==
    /\ held # NoHeld
    /\ Len(heap[held.obj].rows) > 0
    /\ heap' = [heap EXCEPT ![held.obj].rows = Tail(@)]
    /\ last' = [NoCall EXCEPT !.op = "mutate"]
    /\ UNCHANGED <<cache, held, stored, fnVars>>

\* the caller changes the table it holds in place: df.iloc[0, 1] = ""
CallerBlanksCell ==
    /\ held # NoHeld
    /\ Len(heap[held.obj].rows) > 0
    /\ heap[held.obj].rows[1].cells[2] # <<>>
    /\ heap' = [heap EXCEPT ![held.obj].rows[1].cells[2] = <<>>]
    /\ last' = [NoCall EXCEPT !.op = "mutate"]
    /\ UNCHANGED <<cache, held, stored, fnVars>>

\* the caller narrows its table as agent.py does: df = filter_by_sector(df, sector).
\* A table without a sector column comes back as the same object (return df).
CallerFiltersBySector ==
    /\ held # NoHeld
    /\ \E sector \in {txt_mining, txt_URBAN} :
          IF FindColumn(heap[held.obj], SectorTerms) = 0
          THEN UNCHANGED <<held, heap>>
          ELSE Rebind(filter_by_sector(heap[held.obj], sector))
    /\ last' = [NoCall EXCEPT !.op = "filter"]
    /\ UNCHANGED <<cache, stored, fnVars>>

InitCache ==
    /\ IdleCache
    /\ pc = "idle"
    /\ arg = NoRet
    /\ ret = NoRet

NextCache ==
    \/ get_work_orders_df
    \/ get_deals_df
    \/ clear_cache
    \/ CallerDropsRow
    \/ CallerBlanksCell
    \/ CallerFiltersBySector

SpecCache == InitCache /\ [][NextCache]_vars

-----------------------------------------------------------------------------
(* Claims about the cache *)

\* what a get did: it fetched exactly when the source was not cached or force_refresh
\* was set, and a get that did not fetch returned the table of the last population
GetFetchesIffMissOrForce ==
    last.op = "get" =>
        /\ (last.fetches = 1) <=> (~last.cached \/ last.force)
        /\ last.fetches \in {0, 1}
        /\ last.fetches = 0 =>
              /\ last.outcome = "returned"
              /\ held.source = last.source
              /\ heap[held.obj] = stored[last.source]

\* clear_cache leaves no source cached, so the next get of each source fetches
ClearEmptiesCache == last.op = "clear" => \A s \in Sources : cache[s] = NoObj

\* a cached table goes or changes only in clear_cache or in a force_refresh get of
\* its source
CachedTableReplacedOnlyByClearOrForce ==
    \A s \in Sources :
        (cache[s] # NoObj /\ (cache'[s] # cache[s] \/ heap'[cache[s]] # heap[cache[s]])) =>
            \/ last'.op = "clear"
            \/ last'.op = "get" /\ last'.source = s /\ last'.force
                  /\ last'.outcome = "returned"

\* C1: over any sequence of get_work_orders_df / get_deals_df / clear_cache calls a
\* get fetches if and only if its source is not cached or force_refresh is true, and
\* otherwise returns the table stored at the last population; after clear_cache the
\* next get of each source fetches; only clear_cache or a force_refresh get removes
\* or replaces a cached table.
C1_FetchIffMissOrForce ==
    /\ [](GetFetchesIffMissOrForce /\ ClearEmptiesCache)
    /\ [][CachedTableReplacedOnlyByClearOrForce]_vars

\* a get of a cached source without force_refresh has returned without fetching,
\* and a get after clear_cache fetches again
C1_Witness ==
    /\ last.op = "get" /\ last.cached /\ ~last.force /\ last.fetches = 0
    /\ \E s \in Sources : s # last.source /\ cache[s] # NoObj

\* a get whose fetch met a page that was not served has raised after one fetch
FailedFetchRaises ==
    (last.op = "get" /\ last.failing_page # 0) =>
        last.outcome = "raised" /\ last.fetches = 1

\* a get that raised has changed neither the cache, nor a cached table, nor the
\* table the caller holds
RaisedGetLeavesCache ==
    (last'.op = "get" /\ last'.outcome = "raised") =>
        /\ cache' = cache
        /\ \A s \in Sources : cache[s] # NoObj => heap'[cache[s]] = heap[cache[s]]
        /\ held' = held
        /\ stored' = stored

\* C2: if the ingestion collaborator fails during a get (with or without
\* force_refresh), the get fails without returning a table, the cache entry of the
\* source is exactly as before the call, and the fetch is made once.
C2_FailedFetchLeavesCache ==
    /\ []FailedFetchRaises
    /\ [][RaisedGetLeavesCache]_vars

\* a force_refresh get of a cached source has failed on its second page, after a
\* first page of items, and the cached table is still the one stored before
C2_Witness ==
    /\ last.op = "get" /\ last.outcome = "raised"
    /\ last.force /\ last.cached /\ last.failing_page = 2
    /\ heap[cache[last.source]] = stored[last.source]

\* C3: every get returns an independent copy: after any gets and caller mutations
\* of returned tables (in place, or through the engine's filters) the cached table
\* of each source is the one stored at its last population, the caller never holds
\* the cached object, and a non-refreshing get returns the stored contents.
C3_CachedTableUntouchedByCallers ==
    /\ \A s \in Sources : cache[s] # NoObj => heap[cache[s]] = stored[s]
    /\ held # NoHeld => \A s \in Sources : held.obj # cache[s]
    /\ (last.op = "get" /\ last.outcome = "returned") =>
          heap[held.obj] = stored[last.source]

\* the caller has changed, in place, the table it got for a source that is cached:
\* its table now differs from the cached one
C3_Witness ==
    /\ last.op = "mutate"
    /\ cache[held.source] # NoObj
    /\ heap[held.obj] # heap[cache[held.source]]

-----------------------------------------------------------------------------
(* Numbers in text: pd.to_numeric and data_processor.normalize_currency *)

\* a value that is no number: NaN from pd.to_numeric(errors='coerce'), None from
\* normalize_currency (the amounts of the model are not negative)
NotANumber == -1

\* pd.to_numeric(value, errors='coerce') on text that is empty, an unsigned whole
\* number or something else
to_numeric(text) ==
    IF text # NaN /\ Len(text) > 0 /\ AllDigits(text) THEN Decimal(text) ELSE NotANumber

\* the characters re.sub(r'[₹$€£,\s]', '', ...) removes; the three symbols outside
\* ASCII are written by name
CurrencyChars == {"<rupee>", "$", "<euro>", "<pound>", ",", " "}

IsAmountChar(c) == c \notin CurrencyChars

normalize_currency(value) ==
    IF value = None \/ value = NaN \/ value = <<>> THEN NotANumber
    ELSE LET cleaned == SelectSeq(value, IsAmountChar)
         IN  IF Len(cleaned) > 0 /\ AllDigits(cleaned) THEN Decimal(cleaned)
             ELSE NotANumber

IsNumber(n) == n # NotANumber

RECURSIVE SeqSum(_)
SeqSum(s) == IF Len(s) = 0 THEN 0 ELSE s[1] + SeqSum(Tail(s))

SeqMin(s) == CHOOSE x \in {s[i] : i \in 1..Len(s)} : \A i \in 1..Len(s) : x <= s[i]

SeqMax(s) == CHOOSE x \in {s[i] : i \in 1..Len(s)} : \A i \in 1..Len(s) : x >= s[i]

\* the cells of column c, in row order
ColumnValues(df, c) == [i \in 1..Len(df.rows) |-> df.rows[i].cells[c]]

\* pd.to_numeric(df[col], errors='coerce').dropna()
NumericValues(df, c) ==
    LET all == [i \in 1..Len(df.rows) |-> to_numeric(df.rows[i].cells[c])]
    IN  SelectSeq(all, IsNumber)

\* the mean of values, as the fraction sum / count
Mean(values) == [num |-> SeqSum(values), den |-> Len(values)]

-----------------------------------------------------------------------------
(* query_engine.get_revenue_metrics *)

err_NoRevenueColumn == "No revenue column found"
err_NoNumericValues == "No valid numeric values found"

\* get_revenue_metrics with "count": len(df), the row count before the numeric filter
get_revenue_metrics_count_rows(df, revenue_col) ==
    LET found == FindColumn(df, RevenueTerms)
        column == IF revenue_col = None
                  THEN (IF found = 0 THEN None ELSE df.columns[found])
                  ELSE revenue_col
        c == ColumnAt(df, column)
        values == NumericValues(df, c)
    IN  IF ~Given(column) \/ c = 0 THEN [kind |-> "error", error |-> err_NoRevenueColumn]
        ELSE IF Len(values) = 0 THEN [kind |-> "error", error |-> err_NoNumericValues]
        ELSE [kind |-> "metrics", total |-> SeqSum(values), average |-> Mean(values),
              min |-> SeqMin(values), max |-> SeqMax(values), count |-> Len(df.rows),
              column_used |-> column]

get_revenue_metrics(df, revenue_col) ==
    LET found == FindColumn(df, RevenueTerms)
        column == IF revenue_col = None
                  THEN (IF found = 0 THEN None ELSE df.columns[found])
                  ELSE revenue_col
        c == ColumnAt(df, column)
        values == NumericValues(df, c)
    IN  IF ~Given(column) \/ c = 0 THEN [kind |-> "error", error |-> err_NoRevenueColumn]
        ELSE IF Len(values) = 0 THEN [kind |-> "error", error |-> err_NoNumericValues]
        ELSE [kind |-> "metrics", total |-> SeqSum(values), average |-> Mean(values),
              min |-> SeqMin(values), max |-> SeqMax(values), count |-> Len(values),
              column_used |-> column]

txt_100 == <<"1","0","0">>
txt_250 == <<"2","5","0">>
txt_Rupee1000 == <<"<rupee>","1",",","0","0","0">>
txt_Dollar250 == <<"$"," ","2","5","0">>

\* amount cells: empty, text that is no amount, plain numbers, and numbers written
\* with a currency symbol, a thousands separator or a blank
AmountCells == {txt_Empty, txt_NA, txt_100, txt_250, txt_Rupee1000, txt_Dollar250}

RevenueLayouts == {<<col_ItemName, col_MaskedDealValue>>, <<col_ItemName, col_Amount>>,
                   <<col_ItemName, col_Sector>>}

RevenueTables ==
    {MakeTable(cols, [i \in 1..Len(vs) |-> <<txt_Item, vs[i]>>]) :
        cols \in RevenueLayouts, vs \in SeqsUpTo(AmountCells, MaxRows)}

InitRevenue ==
    /\ IdleCache
    /\ pc = "get_revenue_metrics"
    /\ arg \in [df : RevenueTables, revenue_col : {None, col_MaskedDealValue}]
    /\ ret = NoRet

CallGetRevenueMetrics ==
    /\ pc = "get_revenue_metrics"
    /\ ret' = get_revenue_metrics(arg.df, arg.revenue_col)
    /\ pc' = "done"
    /\ UNCHANGED <<arg, cacheVars>>

NextRevenue == CallGetRevenueMetrics

SpecRevenue == InitRevenue /\ [][NextRevenue]_vars

\* the position of the revenue column get_revenue_metrics resolves for its arguments
RevenueColOfArg ==
    IF arg.revenue_col = None THEN FindColumn(arg.df, RevenueTerms)
    ELSE ColumnAt(arg.df, arg.revenue_col)

\* the cells of the resolved revenue column of the argument table
RevenueCellsOfArg == ColumnValues(arg.df, RevenueColOfArg)

IsPresent(v) == v # <<>> /\ v # NaN

IsNumeric(v) == to_numeric(v) # NotANumber

\* C6 as stated: the count in the result of get_revenue_metrics is the number of
\* rows with a non-missing (non-empty) value in the resolved revenue column.
C6_CountIsNonEmptyRows ==
    (pc = "done" /\ ret.kind = "metrics") =>
        ret.count = Len(SelectSeq(RevenueCellsOfArg, IsPresent))

\* C6 amended: the count in the result of get_revenue_metrics is the number of rows
\* whose value in the resolved revenue column parses as a number (a non-empty value
\* that is no plain number is not counted); when no value parses the result is an
\* error and has no count.
C6_CountIsNumericRows ==
    (pc = "done" /\ RevenueColOfArg # 0) =>
        LET n == Len(SelectSeq(RevenueCellsOfArg, IsNumeric))
        IN  IF n = 0 THEN ret.kind = "error"
            ELSE ret.kind = "metrics" /\ ret.count = n

\* metrics were computed over a column in which one value is a number and another
\* is present but no number
C6_Witness ==
    /\ pc = "done" /\ ret.kind = "metrics"
    /\ ret.count = 1
    /\ Len(SelectSeq(RevenueCellsOfArg, IsPresent)) = 2

\* the amounts of the resolved column as the locale-aware parse reads them
LocaleAmountsOfArg ==
    LET all == [i \in 1..Len(RevenueCellsOfArg) |-> normalize_currency(RevenueCellsOfArg[i])]
    IN  SelectSeq(all, IsNumber)

\* C8: revenue metrics parse values locale-aware: a decimal number decorated with
\* currency symbols, thousands separators or whitespace is a valid value and adds
\* its number to total, average, min, max and count; only values unparseable after
\* stripping are excluded, and none is counted as zero.
C8_MetricsParseLocaleAware ==
    (pc = "done" /\ RevenueColOfArg # 0) =>
        LET amounts == LocaleAmountsOfArg
        IN  IF Len(amounts) = 0 THEN ret.kind = "error"
            ELSE /\ ret.kind = "metrics"
                 /\ ret.count = Len(amounts)
                 /\ ret.total = SeqSum(amounts)
                 /\ ret.average = Mean(amounts)
                 /\ ret.min = SeqMin(amounts)
                 /\ ret.max = SeqMax(amounts)

-----------------------------------------------------------------------------
(* Series.value_counts().to_dict() and the breakdowns of query_engine *)

\* value_counts(): the occurrences of each distinct value; dropna=True leaves out
\* NaN and nothing else
value_counts(values) ==
    [v \in {values[i] : i \in 1..Len(values)} \ {NaN} |->
        Cardinality({i \in 1..Len(values) : values[i] = v})]

\* the sum of the counts of a breakdown
RECURSIVE SumCounts(_, _)
SumCounts(f, S) ==
    IF S = {} THEN 0
    ELSE LET v == CHOOSE x \in S : TRUE IN f[v] + SumCounts(f, S \ {v})

RaisedRet == [kind |-> "raised"]

\* lines 153-168 of get_status_breakdown, on the table df it read
status_breakdown(df) ==
    LET status_col == FindColumn(df, StatusTerms)
    IN  IF status_col = 0 THEN [kind |-> "error", error |-> "No status column found"]
        ELSE [kind |-> "breakdown", column |-> df.columns[status_col],
              breakdown |-> value_counts(ColumnValues(df, status_col))]

\* lines 128-143 of get_sector_breakdown, on the table df it read
sector_breakdown(df) ==
    LET sector_col == FindColumn(df, SectorTerms)
    IN  IF sector_col = 0 THEN [kind |-> "error", error |-> "No sector column found"]
        ELSE [kind |-> "breakdown", column |-> df.columns[sector_col],
              breakdown |-> value_counts(ColumnValues(df, sector_col))]

txt_Completed == <<"C","o","m","p","l","e","t","e","d">>
txt_Ongoing == <<"O","n","g","o","i","n","g">>

BoardItem(name, ids, texts) ==
    [name |-> name,
     column_values |-> [k \in 1..Len(ids) |-> [id |-> ids[k], text |-> texts[k]]]]

\* boards with a sector and a status or stage column; a cell the API has no text
\* for is null (None)
BreakdownColumns ==
    [work_orders |-> <<[id |-> <<"c","1">>, title |-> col_Sector],
                       [id |-> <<"c","2">>, title |-> col_ExecutionStatus]>>,
     deals |-> <<[id |-> <<"c","1">>, title |-> col_SectorService],
                 [id |-> <<"c","2">>, title |-> col_DealStage]>>]

BreakdownRows ==
    {<<s, t>> : s \in {None, txt_Mining}, t \in {None, txt_Completed}}

BreakdownBoards ==
    [s \in Sources |->
        {[columns |-> BreakdownColumns[s],
          pages |-> <<Page("ok", [i \in 1..Len(rs) |->
                                    BoardItem(txt_Item, <<<<"c","1">>, <<"c","2">>>>, rs[i])])>>] :
            rs \in SeqsUpTo(BreakdownRows, MaxRows)}
        \cup {[columns |-> BreakdownColumns[s], pages |-> <<Page("timeout", <<>>)>>]}]

\* a getter called without force_refresh from inside query_engine or agent, on the
\* cache c, the objects hp and the history sto: its effect on them, and the copy of
\* the table it returns (df) unless it raised
ReadSource(c, hp, sto, source, remote) ==
    LET p == Populate(c, hp, sto, held, source, FALSE, remote)
    IN  [cache |-> p.cache,
         heap |-> Collect(p.heap, p.cache, held),
         stored |-> p.stored,
         last |-> [op |-> "get", source |-> source, force |-> FALSE,
                   cached |-> c[source] # NoObj, fetches |-> p.fetches,
                   failing_page |-> IF p.fetches = 1 THEN FailingPage(remote) ELSE 0,
                   outcome |-> IF p.raised THEN "raised" ELSE "returned"],
         raised |-> p.raised,
         df |-> IF p.raised THEN NoTable ELSE p.heap[p.cache[source]]]

get_status_breakdown ==
    \E board \in Sources :
        LET source == IF board = "work_orders" THEN "work_orders" ELSE "deals"
        IN  \E remote \in Answers(source, FALSE, BreakdownBoards[source]) :
                LET r == ReadSource(cache, heap, stored, source, remote)
                IN  /\ cache' = r.cache /\ heap' = r.heap /\ stored' = r.stored
                    /\ last' = r.last
                    /\ pc' = "get_status_breakdown"
                    /\ arg' = [board |-> board, source |-> source]
                    /\ ret' = IF r.raised THEN RaisedRet ELSE status_breakdown(r.df)
                    /\ UNCHANGED held

get_sector_breakdown ==
    \E board \in Sources :
        LET source == IF board = "deals" THEN "deals" ELSE "work_orders"
        IN  \E remote \in Answers(source, FALSE, BreakdownBoards[source]) :
                LET r == ReadSource(cache, heap, stored, source, remote)
                IN  /\ cache' = r.cache /\ heap' = r.heap /\ stored' = r.stored
                    /\ last' = r.last
                    /\ pc' = "get_sector_breakdown"
                    /\ arg' = [board |-> board, source |-> source]
                    /\ ret' = IF r.raised THEN RaisedRet ELSE sector_breakdown(r.df)
                    /\ UNCHANGED held

InitBreakdown ==
    /\ IdleCache
    /\ pc = "idle"
    /\ arg = NoRet
    /\ ret = NoRet

NextBreakdown == get_status_breakdown \/ get_sector_breakdown

SpecBreakdown == InitBreakdown /\ [][NextBreakdown]_vars

\* C7: a categorical breakdown (the value counts of a column) never has an entry for
\* the empty value, and its counts sum to the number of rows with a non-empty value
\* in that column.
C7_BreakdownSkipsEmptyValues ==
    (pc \in {"get_status_breakdown", "get_sector_breakdown"} /\ ret.kind = "breakdown") =>
        LET df == heap[cache[arg.source]]
            values == ColumnValues(df, ColumnAt(df, ret.column))
        IN  /\ <<>> \notin DOMAIN ret.breakdown
            /\ SumCounts(ret.breakdown, DOMAIN ret.breakdown)
                   = Len(SelectSeq(values, IsPresent))

-----------------------------------------------------------------------------
(* agent.analyze_data_for_question: what a question asks for *)

\* the longest question of the model, in words
MaxWords == 2

WorkOrderTerms ==
    {<<"w","o","r","k"," ","o","r","d","e","r">>,
     <<"p","r","o","j","e","c","t">>,
     <<"e","x","e","c","u","t","i","o","n">>,
     <<"b","i","l","l","i","n","g">>,
     <<"b","i","l","l","e","d">>,
     <<"r","e","v","e","n","u","e">>,
     <<"c","o","l","l","e","c","t","e","d">>}

DealTerms ==
    {<<"d","e","a","l">>,
     <<"p","i","p","e","l","i","n","e">>,
     <<"s","a","l","e","s">>,
     <<"p","r","o","s","p","e","c","t">>,
     <<"o","p","p","o","r","t","u","n","i","t","y">>,
     <<"s","t","a","g","e">>}

BothTerms ==
    {<<"o","v","e","r","a","l","l">>,
     <<"b","u","s","i","n","e","s","s">>,
     <<"c","o","m","p","a","n","y">>,
     <<"e","v","e","r","y","t","h","i","n","g">>,
     <<"s","u","m","m","a","r","y">>,
     <<"l","e","a","d","e","r","s","h","i","p">>,
     <<"u","p","d","a","t","e">>}

\* sectors = [...], in the order the loop tries them
SectorList ==
    <<<<"m","i","n","i","n","g">>,
      <<"e","n","e","r","g","y">>,
      <<"r","e","n","e","w","a","b","l","e","s">>,
      <<"p","o","w","e","r","l","i","n","e">>,
      <<"u","r","b","a","n">>,
      <<"i","n","f","r","a","s","t","r","u","c","t","u","r","e">>,
      <<"a","g","r","i","c","u","l","t","u","r","e">>>>

kw_energy == <<"e","n","e","r","g","y">>
kw_renewables == <<"r","e","n","e","w","a","b","l","e","s">>
kw_quarter == <<"q","u","a","r","t","e","r">>
kw_this_quarter == <<"t","h","i","s"," ","q","u","a","r","t","e","r">>
kw_current_quarter == <<"c","u","r","r","e","n","t"," ","q","u","a","r","t","e","r">>
kw_q1 == <<"q","1">>
kw_q2 == <<"q","2">>
kw_q3 == <<"q","3">>
kw_q4 == <<"q","4">>
name_WorkOrders == <<"W","o","r","k"," ","O","r","d","e","r","s">>
name_Deals == <<"D","e","a","l","s">>

\* any(term in question_lower for term in terms)
AnyTerm(terms, question_lower) == \E t \in terms : Contains(question_lower, t)

\* the three keyword tests without the default: a question with no work-order and
\* no deal keyword asks for neither source
RelevantSources_no_default(question_lower) ==
    LET needs_both == AnyTerm(BothTerms, question_lower)
    IN  [work_orders |-> AnyTerm(WorkOrderTerms, question_lower) \/ needs_both,
         deals |-> AnyTerm(DealTerms, question_lower) \/ needs_both]

\* needs_work_orders and needs_deals after the default and needs_both are applied
RelevantSources(question_lower) ==
    LET needs_work_orders == AnyTerm(WorkOrderTerms, question_lower)
        needs_deals == AnyTerm(DealTerms, question_lower)
        needs_both == AnyTerm(BothTerms, question_lower)
                        \/ (~needs_work_orders /\ ~needs_deals)
    IN  [work_orders |-> needs_work_orders \/ needs_both,
         deals |-> needs_deals \/ needs_both]

\* for sector in sectors: if sector in question_lower: sector_filter = sector; break
FirstSector(question_lower) ==
    LET hits == {i \in 1..Len(SectorList) : Contains(question_lower, SectorList[i])}
    IN  IF hits = {} THEN None
        ELSE SectorList[CHOOSE i \in hits : \A k \in hits : i <= k]

\* the loop alone, without the rule for 'energy'
SectorFilter_first_match(question_lower) == FirstSector(question_lower)

\* the loop, and then: if 'energy' in question_lower: sector_filter = 'renewables'
SectorFilter(question_lower) ==
    IF Contains(question_lower, kw_energy) THEN kw_renewables
    ELSE FirstSector(question_lower)

\* quarter = None
NoQuarter == 0

\* year = 2026
ReferenceYear == 2026

\* range(2024, 2028)
PlausibleYears == 2024..2027

\* str(y) of a year of four digits
YearText(y) ==
    <<Digits[((y \div 1000) % 10) + 1], Digits[((y \div 100) % 10) + 1],
      Digits[((y \div 10) % 10) + 1], Digits[(y % 10) + 1]>>

\* the quarter with the tokens q1..q4 tried before "this quarter" and "current
\* quarter"
QuarterOf_tokens_first(question_lower) ==
    IF Contains(question_lower, kw_q1) THEN 1
    ELSE IF Contains(question_lower, kw_q2) THEN 2
    ELSE IF Contains(question_lower, kw_q3) THEN 3
    ELSE IF Contains(question_lower, kw_q4) THEN 4
    ELSE IF \/ Contains(question_lower, kw_this_quarter)
            \/ Contains(question_lower, kw_current_quarter) THEN 1
    ELSE NoQuarter

\* the quarter the question names, NoQuarter when the time filter is not triggered
\* or names none
QuarterOf(question_lower) ==
    IF \/ Contains(question_lower, kw_quarter)
       \/ Contains(question_lower, kw_q1) \/ Contains(question_lower, kw_q2)
       \/ Contains(question_lower, kw_q3) \/ Contains(question_lower, kw_q4)
    THEN IF \/ Contains(question_lower, kw_this_quarter)
            \/ Contains(question_lower, kw_current_quarter) THEN 1
         ELSE IF Contains(question_lower, kw_q1) THEN 1
         ELSE IF Contains(question_lower, kw_q2) THEN 2
         ELSE IF Contains(question_lower, kw_q3) THEN 3
         ELSE IF Contains(question_lower, kw_q4) THEN 4
         ELSE NoQuarter
    ELSE NoQuarter

\* for y in range(2024, 2028): if str(y) in question_lower: year = y; break
YearOf(question_lower) ==
    LET hits == {y \in PlausibleYears : Contains(question_lower, YearText(y))}
    IN  IF hits = {} THEN ReferenceYear
        ELSE CHOOSE y \in hits : \A k \in hits : y <= k

\* f"Q{quarter} {year}"
QuarterLabel(year, quarter) == <<"Q", Digits[quarter + 1], " ">> \o YearText(year)

\* quarter_ranges[quarter]: the first and the last day of the quarter, as text
QuarterRange(year, quarter) ==
    LET first == <<<<"-","0","1","-","0","1">>, <<"-","0","4","-","0","1">>,
                   <<"-","0","7","-","0","1">>, <<"-","1","0","-","0","1">>>>
        final == <<<<"-","0","3","-","3","1">>, <<"-","0","6","-","3","0">>,
                   <<"-","0","9","-","3","0">>, <<"-","1","2","-","3","1">>>>
    IN  [start_date |-> YearText(year) \o first[quarter],
         end_date |-> YearText(year) \o final[quarter]]

\* get_quarterly_data(year, quarter), both given; deals and work_orders are what its
\* two gets return, copies of the cached tables
get_quarterly_data(year, quarter, deals, work_orders) ==
    LET range == QuarterRange(year, quarter)
    IN  [quarter |-> QuarterLabel(year, quarter),
         start_date |-> range.start_date,
         end_date |-> range.end_date,
         deals |-> filter_by_date_range(deals, range.start_date, range.end_date, None),
         work_orders |->
            filter_by_date_range(work_orders, range.start_date, range.end_date, None)]

\* a table never taken for empty
Empty_never(df) == FALSE

\* DataFrame.empty
Empty(df) == Len(df.rows) = 0 \/ Len(df.columns) = 0

\* round(num / den * 100), halves to the even neighbour
RoundedPercent(num, den) ==
    LET q == (100 * num) \div den
        r == (100 * num) % den
    IN  IF 2 * r < den THEN q
        ELSE IF 2 * r > den THEN q + 1
        ELSE IF q % 2 = 0 THEN q ELSE q + 1

\* wo_metrics of lines 155-181, on the work orders left after the filters
WorkOrderMetrics(work_orders) ==
    LET revenue_col == ColumnAt(work_orders, col_Amount)
        billed_col == ColumnAt(work_orders, col_Billed)
        status_col == ColumnAt(work_orders, col_ExecutionStatus)
        sector_col == ColumnAt(work_orders, col_Sector)
        revenue == IF revenue_col = 0 THEN <<>> ELSE NumericValues(work_orders, revenue_col)
        billed == IF billed_col = 0 THEN <<>> ELSE NumericValues(work_orders, billed_col)
        keys == {"total_work_orders"}
                  \cup (IF Len(revenue) > 0 THEN {"total_revenue", "avg_order_value"} ELSE {})
                  \cup (IF Len(billed) > 0 THEN {"total_billed"} ELSE {})
                  \cup (IF status_col # 0 THEN {"status_breakdown"} ELSE {})
                  \cup (IF sector_col # 0 THEN {"sector_breakdown"} ELSE {})
    IN  [k \in keys |->
            CASE k = "total_work_orders" -> Len(work_orders.rows)
              [] k = "total_revenue" -> SeqSum(revenue)
              [] k = "avg_order_value" -> Mean(revenue)
              [] k = "total_billed" -> SeqSum(billed)
              [] k = "status_breakdown" ->
                    value_counts(ColumnValues(work_orders, status_col))
              [] k = "sector_breakdown" ->
                    value_counts(ColumnValues(work_orders, sector_col))]

\* deals_metrics of lines 187-212, on the deals left after the filters
DealsMetrics(deals) ==
    LET value_col == ColumnAt(deals, col_MaskedDealValue)
        stage_col == ColumnAt(deals, col_DealStage)
        status_col == ColumnAt(deals, col_DealStatus)
        sector_col == ColumnAt(deals, col_SectorService)
        values == IF value_col = 0 THEN <<>> ELSE NumericValues(deals, value_col)
        keys == {"total_deals"}
                  \cup (IF Len(values) > 0
                        THEN {"total_pipeline_value", "avg_deal_value", "deals_with_value"}
                        ELSE {})
                  \cup (IF stage_col # 0 THEN {"stage_breakdown"} ELSE {})
                  \cup (IF status_col # 0 THEN {"status_breakdown"} ELSE {})
                  \cup (IF sector_col # 0 THEN {"sector_breakdown"} ELSE {})
    IN  [k \in keys |->
            CASE k = "total_deals" -> Len(deals.rows)
              [] k = "total_pipeline_value" -> SeqSum(values)
              [] k = "avg_deal_value" -> Mean(values)
              [] k = "deals_with_value" -> Len(values)
              [] k = "stage_breakdown" -> value_counts(ColumnValues(deals, stage_col))
              [] k = "status_breakdown" -> value_counts(ColumnValues(deals, status_col))
              [] k = "sector_breakdown" -> value_counts(ColumnValues(deals, sector_col))]

\* the caveats of lines 215-223; deals_full is the table a further get_deals_df()
\* returns
Caveats(needs, deals_full) ==
    LET value_col == ColumnAt(deals_full, col_MaskedDealValue)
        missing_value == Len(deals_full.rows) - Len(NumericValues(deals_full, value_col))
    IN  (IF needs.work_orders THEN <<[caveat |-> "revenue_column", missing |-> 0,
                                      percent |-> 0]>>
         ELSE <<>>)
        \o (IF needs.deals /\ missing_value > 0
            THEN <<[caveat |-> "deals_without_value", missing |-> missing_value,
                    percent |-> RoundedPercent(missing_value, Len(deals_full.rows))]>>
            ELSE <<>>)

\* the body of analyze_data_for_question after its two gets returned work_orders0
\* and deals0: the results dictionary, or the KeyError of the caveat step when deals
\* are needed and the deals table has no "Masked Deal value" column
Analyze(question, work_orders0, deals0) ==
    LET question_lower == lower(question)
        needs == RelevantSources(question_lower)
        sector_filter == SectorFilter(question_lower)
        \* lines 111-117
        work_orders1 == IF sector_filter # None /\ needs.work_orders
                        THEN filter_by_sector(work_orders0, sector_filter)
                        ELSE work_orders0
        deals1 == IF sector_filter # None /\ needs.deals
                  THEN filter_by_sector(deals0, sector_filter)
                  ELSE deals0
        \* lines 119-149
        quarter == QuarterOf(question_lower)
        year == YearOf(question_lower)
        quarterly_data == get_quarterly_data(year, quarter, deals0, work_orders0)
        work_orders == IF /\ quarter # NoQuarter /\ needs.work_orders
                          /\ ~Empty(quarterly_data.work_orders)
                       THEN quarterly_data.work_orders
                       ELSE work_orders1
        deals == IF quarter # NoQuarter /\ needs.deals /\ ~Empty(quarterly_data.deals)
                 THEN quarterly_data.deals
                 ELSE deals1
        keys == (IF sector_filter # None THEN {"sector_filter"} ELSE {})
                  \cup (IF quarter # NoQuarter THEN {"quarter"} ELSE {})
                  \cup (IF needs.work_orders THEN {"work_orders"} ELSE {})
                  \cup (IF needs.deals THEN {"deals"} ELSE {})
    IN  IF needs.deals /\ ColumnAt(deals0, col_MaskedDealValue) = 0 THEN RaisedRet
        ELSE [kind |-> "results",
              data_analyzed |->
                  (IF needs.work_orders THEN <<name_WorkOrders>> ELSE <<>>)
                      \o (IF needs.deals THEN <<name_Deals>> ELSE <<>>),
              metrics |->
                  [k \in keys |->
                      CASE k = "sector_filter" -> sector_filter
                        [] k = "quarter" -> QuarterLabel(year, quarter)
                        [] k = "work_orders" -> WorkOrderMetrics(work_orders)
                        [] k = "deals" -> DealsMetrics(deals)],
              insights |-> <<>>,
              caveats |-> Caveats(needs, deals0)]

-----------------------------------------------------------------------------
(* The questions asked and the boards behind them *)

col_ProbableStartDate == <<"P","r","o","b","a","b","l","e"," ","S","t","a","r","t"," ","D","a","t","e">>
txt_Renewables == <<"R","e","n","e","w","a","b","l","e","s">>
txt_Proposal == <<"P","r","o","p","o","s","a","l">>
d_2026_02_14 == <<"2","0","2","6","-","0","2","-","1","4">>
d_2025_05_20 == <<"2","0","2","5","-","0","5","-","2","0">>

\* the words a question of the model is made of
Words ==
    {<<"r","e","v","e","n","u","e">>,
     <<"p","i","p","e","l","i","n","e">>,
     <<"s","u","m","m","a","r","y">>,
     <<"h","e","l","l","o">>,
     <<"E","n","e","r","g","y">>,
     <<"m","i","n","i","n","g">>,
     <<"u","r","b","a","n">>,
     <<"Q","2">>,
     <<"q","1">>,
     <<"q","u","a","r","t","e","r">>,
     <<"t","h","i","s"," ","q","u","a","r","t","e","r">>,
     <<"2","0","2","4">>,
     <<"2","0","2","5">>}

\* words written one after the other with a space between
RECURSIVE JoinWords(_)
JoinWords(ws) ==
    IF Len(ws) = 0 THEN <<>>
    ELSE IF Len(ws) = 1 THEN ws[1]
    ELSE ws[1] \o <<" ">> \o JoinWords(Tail(ws))

Questions == {JoinWords(ws) : ws \in SeqsUpTo(Words, MaxWords)}

ColumnIds == <<<<"c","1">>, <<"c","2">>, <<"c","3">>, <<"c","4">>>>

AnalysisColumns ==
    [work_orders |-> <<[id |-> ColumnIds[1], title |-> col_Sector],
                       [id |-> ColumnIds[2], title |-> col_ExecutionStatus],
                       [id |-> ColumnIds[3], title |-> col_Amount],
                       [id |-> ColumnIds[4], title |-> col_ProbableStartDate]>>,
     deals |-> <<[id |-> ColumnIds[1], title |-> col_SectorService],
                 [id |-> ColumnIds[2], title |-> col_DealStage],
                 [id |-> ColumnIds[3], title |-> col_MaskedDealValue],
                 [id |-> ColumnIds[4], title |-> col_CloseDate]>>]

\* a deals board without the deal value column
DealColumnsWithoutValue ==
    <<[id |-> ColumnIds[1], title |-> col_SectorService],
      [id |-> ColumnIds[2], title |-> col_DealStage]>>

\* the boards the API may answer with during an analysis: the full board of each
\* source, a deals board without deal values, and a request that times out
AnalysisBoards ==
    [work_orders |->
        {[columns |-> AnalysisColumns.work_orders,
          pages |-> <<Page("ok",
              <<BoardItem(txt_WO1, ColumnIds,
                          <<txt_Mining, txt_Completed, txt_100, d_2026_02_14>>),
                BoardItem(txt_WO2, ColumnIds,
                          <<txt_Renewables, txt_Ongoing, None, d_2025_05_20>>)>>)>>],
         [columns |-> AnalysisColumns.work_orders, pages |-> <<Page("timeout", <<>>)>>]},
     deals |->
        {[columns |-> AnalysisColumns.deals,
          pages |-> <<Page("ok",
              <<BoardItem(txt_D1, ColumnIds,
                          <<txt_RenewablesSolar, txt_Proposal, txt_250, d_2025_05_20>>),
                BoardItem(txt_D2, ColumnIds,
                          <<txt_Urban, txt_Won, None, None>>)>>)>>],
         [columns |-> DealColumnsWithoutValue,
          pages |-> <<Page("ok",
              <<BoardItem(txt_D1, <<ColumnIds[1], ColumnIds[2]>>,
                          <<txt_Mining, txt_Proposal>>)>>)>>],
         [columns |-> AnalysisColumns.deals, pages |-> <<Page("errors", <<>>)>>]}]

\* answer_question hands the user's question to the analysis
AskQuestion ==
    /\ pc = "idle"
    /\ \E question \in Questions : arg' = [question |-> question]
    /\ pc' = "analyze"
    /\ ret' = NoRet
    /\ UNCHANGED cacheVars

\* the whole of analyze_data_for_question on the question asked: the two gets (each
\* a fetch when its source is not cached, and an exception when the fetch fails),
\* then the analysis of what they returned
analyze_data_for_question ==
    /\ pc = "analyze"
    /\ \E remote_wo \in Answers("work_orders", FALSE, AnalysisBoards.work_orders),
          remote_deals \in Answers("deals", FALSE, AnalysisBoards.deals) :
            LET wo == ReadSource(cache, heap, stored, "work_orders", remote_wo)
                dl == ReadSource(wo.cache, wo.heap, wo.stored, "deals", remote_deals)
                after == IF wo.raised THEN wo ELSE dl
            IN  /\ cache' = after.cache
                /\ heap' = after.heap
                /\ stored' = after.stored
                /\ last' = [after.last EXCEPT !.op = "analyze"]
                /\ ret' = IF after.raised THEN RaisedRet
                          ELSE Analyze(arg.question, wo.df, dl.df)
    /\ pc' = "done"
    /\ UNCHANGED <<arg, held>>

\* the caller is done with the results
Answered ==
    /\ pc = "done"
    /\ pc' = "idle"
    /\ arg' = NoRet
    /\ ret' = NoRet
    /\ last' = NoCall
    /\ UNCHANGED <<cache, heap, held, stored>>

InitIntent ==
    /\ IdleCache
    /\ pc = "idle"
    /\ arg = NoRet
    /\ ret = NoRet

NextIntent == AskQuestion \/ analyze_data_for_question \/ Answered

SpecIntent == InitIntent /\ [][NextIntent]_vars

\* the question of a finished analysis, as the analysis reads it
AskedLower == lower(arg.question)

AnalysisReturned == pc = "done" /\ ret.kind = "results"

\* the sources the rule of the specification makes relevant for the question
ExpectedSources ==
    LET both == \/ \E t \in BothTerms : Contains(AskedLower, t)
                \/ /\ \A t \in WorkOrderTerms : ~Contains(AskedLower, t)
                   /\ \A t \in DealTerms : ~Contains(AskedLower, t)
    IN  (IF both \/ \E t \in WorkOrderTerms : Contains(AskedLower, t)
         THEN {"work_orders"} ELSE {})
        \cup (IF both \/ \E t \in DealTerms : Contains(AskedLower, t)
              THEN {"deals"} ELSE {})

ExpectedNames ==
    (IF "work_orders" \in ExpectedSources THEN <<name_WorkOrders>> ELSE <<>>)
        \o (IF "deals" \in ExpectedSources THEN <<name_Deals>> ELSE <<>>)

C10_EnergyMeansRenewables ==
    AnalysisReturned =>
        LET occurring == {i \in 1..Len(SectorList) : Contains(AskedLower, SectorList[i])}
        IN  IF Contains(AskedLower, kw_energy)
            THEN /\ "sector_filter" \in DOMAIN ret.metrics
                 /\ ret.metrics["sector_filter"] = kw_renewables
            ELSE IF occurring = {}
            THEN "sector_filter" \notin DOMAIN ret.metrics
            ELSE /\ "sector_filter" \in DOMAIN ret.metrics
                 /\ \E i \in occurring :
                        /\ \A k \in occurring : i <= k
                        /\ ret.metrics["sector_filter"] = SectorList[i]

\* a question naming mining before energy was analysed with the filter renewables
C10_Witness ==
    /\ AnalysisReturned
    /\ Contains(AskedLower, SectorList[1])
    /\ Contains(AskedLower, kw_energy)
    /\ ret.metrics["sector_filter"] = kw_renewables

-----------------------------------------------------------------------------
(* The filters of the ad-hoc analysis *)

\* the table of a source as the cache holds it when the analysis is done
CachedTable(source) == heap[cache[source]]

SourceTotalKey == [work_orders |-> "total_work_orders", deals |-> "total_deals"]

\* the rows of a cached source whose sector value contains the keyword
SectorRowsOf(source, keyword) ==
    LET df == CachedTable(source)
        c == FindColumn(df, SectorTerms)
        Tagged(r) == Contains(lower(r.cells[c]), keyword)
    IN  IF c = 0 THEN df.rows ELSE SelectSeq(df.rows, Tagged)

\* of rows, those whose date lies in the quarter of the label "Qn yyyy"
InQuarterOf(source, rows, label) ==
    LET df == CachedTable(source)
        c == FindColumn(df, DateTerms)
        range == QuarterRange(Decimal(SubSeq(label, 4, 7)), Decimal(<<label[2]>>))
        Inside(r) == /\ to_datetime(r.cells[c]) # NaT
                     /\ to_datetime(r.cells[c]) >= to_datetime(range.start_date)
                     /\ to_datetime(r.cells[c]) <= to_datetime(range.end_date)
    IN  IF c = 0 THEN rows ELSE SelectSeq(rows, Inside)

\* C11: when the question yields a sector filter and a quarter, the metrics of each
\* analysed source are computed over the rows that satisfy the sector filter and,
\* unless that leaves none, fall inside the quarter; the sector breakdown holds only
\* values tagged with the sector.
C11_SectorAndQuarterBothApply ==
    (/\ AnalysisReturned
     /\ {"sector_filter", "quarter"} \subseteq DOMAIN ret.metrics) =>
        \A s \in DOMAIN ret.metrics \cap Sources :
            LET sectorRows == SectorRowsOf(s, ret.metrics["sector_filter"])
                both == InQuarterOf(s, sectorRows, ret.metrics["quarter"])
                expected == IF Len(both) = 0 THEN sectorRows ELSE both
                m == ret.metrics[s]
            IN  /\ m[SourceTotalKey[s]] = Len(expected)
                /\ "sector_breakdown" \in DOMAIN m =>
                      \A v \in DOMAIN m["sector_breakdown"] :
                          Contains(lower(v), ret.metrics["sector_filter"])

\* the values of the sector column in rows, counted
SectorCountsOf(source, rows) ==
    LET c == ColumnAt(CachedTable(source),
                      IF source = "work_orders" THEN col_Sector ELSE col_SectorService)
    IN  value_counts([i \in 1..Len(rows) |-> rows[i].cells[c]])

\* the rows of a cached source before the time filter: those the sector filter
\* leaves when the results carry one, all of them otherwise
RowsBeforeTimeFilter(source) ==
    IF "sector_filter" \in DOMAIN ret.metrics
    THEN SectorRowsOf(source, ret.metrics["sector_filter"])
    ELSE CachedTable(source).rows

\* C12: with a quarter resolved, each analysed source is analysed on its rows of
\* that quarter when there are any, and otherwise on the source as it stood without
\* the time filter; each source on its own.
C12_EmptyQuarterKeepsSource ==
    (AnalysisReturned /\ "quarter" \in DOMAIN ret.metrics) =>
        \A s \in DOMAIN ret.metrics \cap Sources :
            LET subset == InQuarterOf(s, CachedTable(s).rows, ret.metrics["quarter"])
                used == IF Len(subset) = 0 THEN RowsBeforeTimeFilter(s) ELSE subset
                m == ret.metrics[s]
            IN  /\ m[SourceTotalKey[s]] = Len(used)
                /\ m["sector_breakdown"] = SectorCountsOf(s, used)

\* a question for the first quarter of 2026 was analysed: one work order falls in
\* it and is used, no deal does and both deals are kept
C12_Witness ==
    /\ AnalysisReturned
    /\ DOMAIN ret.metrics = {"quarter", "work_orders", "deals"}
    /\ Len(CachedTable("work_orders").rows) = 2
    /\ ret.metrics["work_orders"]["total_work_orders"] = 1
    /\ Len(InQuarterOf("deals", CachedTable("deals").rows, ret.metrics["quarter"])) = 0
    /\ ret.metrics["deals"]["total_deals"] = 2

\* the years a question may name, as written, in the order they are tried
YearsWritten ==
    [y \in 2024..2027 |->
        CASE y = 2024 -> <<"2","0","2","4">>
          [] y = 2025 -> <<"2","0","2","5">>
          [] y = 2026 -> <<"2","0","2","6">>
          [] y = 2027 -> <<"2","0","2","7">>]

QuarterTokens == <<kw_q1, kw_q2, kw_q3, kw_q4>>

\* C13: the time filter is triggered only by "quarter" or one of q1..q4; the quarter
\* is 1 for "this quarter" or "current quarter", else the first of q1..q4 that
\* occurs, else none is resolved and no time filter is applied; the year is the
\* first of 2024..2027 that occurs, else 2026.
C13_QuarterAndYearResolution ==
    AnalysisReturned =>
        LET tokens == {i \in 1..4 : Contains(AskedLower, QuarterTokens[i])}
            triggered == Contains(AskedLower, kw_quarter) \/ tokens # {}
            years == {y \in 2024..2027 : Contains(AskedLower, YearsWritten[y])}
            year == IF years = {} THEN 2026
                    ELSE CHOOSE y \in years : \A k \in years : y <= k
            relative == \/ Contains(AskedLower, kw_this_quarter)
                        \/ Contains(AskedLower, kw_current_quarter)
        IN  IF triggered /\ (relative \/ tokens # {})
            THEN \E q \in 1..4 :
                    /\ IF relative THEN q = 1
                       ELSE q \in tokens /\ \A k \in tokens : q <= k
                    /\ "quarter" \in DOMAIN ret.metrics
                    /\ ret.metrics["quarter"]
                          = <<"Q", Digits[q + 1], " ">> \o YearsWritten[year]
            ELSE /\ "quarter" \notin DOMAIN ret.metrics
                 /\ \A s \in DOMAIN ret.metrics \cap Sources :
                        ret.metrics[s][SourceTotalKey[s]] = Len(RowsBeforeTimeFilter(s))

\* a question naming both q2 and "this quarter" was analysed for the first quarter
C13_Witness ==
    /\ AnalysisReturned
    /\ Contains(AskedLower, kw_q2)
    /\ Contains(AskedLower, kw_this_quarter)
    /\ ret.metrics["quarter"] = <<"Q", "1", " ", "2", "0", "2", "6">>

-----------------------------------------------------------------------------
(* query_engine.get_quarterly_data *)

\* dates on and next to the bounds of the first quarter of 2026
QuarterDates == {d_2025_12_31, d_2026_01_01, d_2026_03_31, d_2026_04_01}

\* the boards behind a quarterly report: deals with close dates around the bounds,
\* the work orders of the analysis, and requests that fail
QuarterBoards ==
    [work_orders |-> AnalysisBoards.work_orders,
     deals |->
        {[columns |-> <<[id |-> ColumnIds[1], title |-> col_CloseDate]>>,
          pages |-> <<Page("ok", [i \in 1..Len(ds) |->
                                    BoardItem(txt_Item, <<ColumnIds[1]>>, <<ds[i]>>)])>>] :
            ds \in SeqsUpTo(QuarterDates, MaxRows)}
        \cup {[columns |-> <<>>, pages |-> <<Page("timeout", <<>>)>>]}]

\* get_quarterly_data(year, quarter) as called: the get of the deals, the get of the
\* work orders, and the two tables filtered by the bounds of the quarter
CallGetQuarterlyData ==
    \E remote_deals \in Answers("deals", FALSE, QuarterBoards.deals),
       remote_wo \in Answers("work_orders", FALSE, QuarterBoards.work_orders) :
        LET dl == ReadSource(cache, heap, stored, "deals", remote_deals)
            wo == ReadSource(dl.cache, dl.heap, dl.stored, "work_orders", remote_wo)
            after == IF dl.raised THEN dl ELSE wo
        IN  /\ cache' = after.cache
            /\ heap' = after.heap
            /\ stored' = after.stored
            /\ last' = [after.last EXCEPT !.op = "quarterly"]
            /\ ret' = IF after.raised THEN RaisedRet
                      ELSE [kind |-> "quarterly",
                            data |-> get_quarterly_data(arg.year, arg.quarter,
                                                        dl.df, wo.df)]
            /\ pc' = "get_quarterly_data"
            /\ UNCHANGED <<arg, held>>

\* the caller's year and quarter
InitQuarter ==
    /\ IdleCache
    /\ pc = "idle"
    /\ arg \in [year : PlausibleYears, quarter : 1..4]
    /\ ret = NoRet

NextQuarter == CallGetQuarterlyData

SpecQuarter == InitQuarter /\ [][NextQuarter]_vars

QuarterlyReturned == pc = "get_quarterly_data" /\ ret.kind = "quarterly"

\* the calendar bounds of the four quarters, month and day
CalendarBounds ==
    <<[first |-> <<"-","0","1","-","0","1">>, final |-> <<"-","0","3","-","3","1">>],
      [first |-> <<"-","0","4","-","0","1">>, final |-> <<"-","0","6","-","3","0">>],
      [first |-> <<"-","0","7","-","0","1">>, final |-> <<"-","0","9","-","3","0">>],
      [first |-> <<"-","1","0","-","0","1">>, final |-> <<"-","1","2","-","3","1">>]>>

\* the index labels of the rows of a cached source dated from start to end, both
\* days included
IndexWithin(source, start, end) ==
    LET df == CachedTable(source)
        c == FindColumn(df, DateTerms)
        Inside(r) == /\ to_datetime(r.cells[c]) # NaT
                     /\ to_datetime(start) <= to_datetime(r.cells[c])
                     /\ to_datetime(r.cells[c]) <= to_datetime(end)
        rows == SelectSeq(df.rows, Inside)
    IN  [i \in 1..Len(rows) |-> rows[i].index]

\* C14: get_quarterly_data gives every (year, quarter) the calendar bounds of the
\* quarter (year-01-01..year-03-31, year-04-01..year-06-30, year-07-01..year-09-30,
\* year-10-01..year-12-31), and the tables it returns are the rows of the two
\* sources dated within those bounds, the bounds included.
C14_QuarterBounds ==
    QuarterlyReturned =>
        LET start == YearsWritten[arg.year] \o CalendarBounds[arg.quarter].first
            end == YearsWritten[arg.year] \o CalendarBounds[arg.quarter].final
        IN  /\ ret.data.start_date = start
            /\ ret.data.end_date = end
            /\ (arg.year = 2026 /\ arg.quarter = 1) =>
                    /\ ret.data.start_date = d_2026_01_01
                    /\ ret.data.end_date = d_2026_03_31
            /\ \A s \in Sources :
                    FindColumn(CachedTable(s), DateTerms) # 0 =>
                        /\ IndexOf(ret.data[s]) = IndexWithin(s, start, end)
                        /\ ret.data[s].columns = CachedTable(s).columns

\* the first quarter of 2026 was asked for with deals closed on its last day and on
\* the day after: the first is returned, the second is not
C14_Witness ==
    /\ QuarterlyReturned
    /\ arg = [year |-> 2026, quarter |-> 1]
    /\ ColumnValues(CachedTable("deals"), 2) = <<d_2026_03_31, d_2026_04_01>>
    /\ IndexOf(ret.data.deals) = <<0>>

-----------------------------------------------------------------------------
(* agent.format_number and agent.generate_leadership_update *)

txt_Lost == <<"L","o","s","t">>
txt_ExecutedUntilCurrentMonth ==
    <<"E","x","e","c","u","t","e","d"," ","u","n","t","i","l"," ",
      "c","u","r","r","e","n","t"," ","m","o","n","t","h">>

KeyError == [kind |-> "raised", error |-> "KeyError"]
ZeroDivisionError == [kind |-> "raised", error |-> "ZeroDivisionError"]

\* what a division by zero leaves in place of its text
DivisionByZero == <<"<ZeroDivisionError>">>

\* a natural number as text
RECURSIVE DecimalText(_)
DecimalText(n) ==
    IF n < 10 THEN <<Digits[n + 1]>>
    ELSE DecimalText(n \div 10) \o <<Digits[(n % 10) + 1]>>

\* format(n, ","): the digits in groups of three
RECURSIVE Grouped(_)
Grouped(n) ==
    IF n < 1000 THEN DecimalText(n)
    ELSE Grouped(n \div 1000)
            \o <<",", Digits[((n \div 100) % 10) + 1], Digits[((n \div 10) % 10) + 1],
                 Digits[(n % 10) + 1]>>

\* f"{num/den:,.2f}"
TwoDecimals(num, den) ==
    LET h == RoundedPercent(num, den)
    IN  Grouped(h \div 100) \o <<".", Digits[((h \div 10) % 10) + 1], Digits[(h % 10) + 1]>>

\* format_number(value) with the default prefix, for a whole amount
format_number(value) ==
    IF value >= 10000000 THEN <<"<rupee>">> \o TwoDecimals(value, 10000000) \o <<" ","C","r">>
    ELSE IF value >= 100000 THEN <<"<rupee>">> \o TwoDecimals(value, 100000) \o <<" ","L">>
    ELSE <<"<rupee>">> \o Grouped(value)

\* f"{(num/den*100):.1f}%"
PercentText(num, den) ==
    IF den = 0 THEN DivisionByZero
    ELSE LET tenths == RoundedPercent(10 * num, den)
         IN  DecimalText(tenths \div 10) \o <<".", Digits[(tenths % 10) + 1], "%">>

\* the billing percentage computed whatever the total revenue is
BillingPercentage_unguarded(total_billed, total_revenue) ==
    PercentText(total_billed, total_revenue)

\* f"{(total_billed/total_revenue*100):.1f}%" if total_revenue > 0 else "N/A"
BillingPercentage(total_billed, total_revenue) ==
    IF total_revenue > 0 THEN PercentText(total_billed, total_revenue) ELSE txt_NA

\* f"{(won_deals/(won_deals+lost_deals)*100):.1f}%" if (won_deals + lost_deals) > 0
\* else "N/A"
WinRate(won_deals, lost_deals) ==
    IF won_deals + lost_deals > 0 THEN PercentText(won_deals, won_deals + lost_deals)
    ELSE txt_NA

\* status_counts.get(key, 0)
CountOf(counts, key) == IF key \in DOMAIN counts THEN counts[key] ELSE 0

\* pd.to_numeric(df[col], errors='coerce').sum(): NaN is skipped
NumericSum(df, c) == SeqSum(NumericValues(df, c))

\* the keys of counts with the greatest count (max(counts, key=counts.get) is the
\* one of them that value_counts lists first), "N/A" for no key
TopOf(counts) ==
    IF DOMAIN counts = {} THEN {txt_NA}
    ELSE {v \in DOMAIN counts : \A w \in DOMAIN counts : counts[w] <= counts[v]}

\* the concern about deals without a value, of lines 311-313
MissingValueConcern(deals, value_col) ==
    LET missing_values == Len(deals.rows) - Len(NumericValues(deals, value_col))
    IN  IF 10 * missing_values > 3 * Len(deals.rows)
        THEN <<[concern |-> "missing_deal_value", count |-> missing_values,
                text |-> IF Len(deals.rows) = 0 THEN DivisionByZero
                         ELSE DecimalText(RoundedPercent(missing_values, Len(deals.rows)))]>>
        ELSE <<>>

\* the body of generate_leadership_update after its two gets returned work_orders
\* and deals: the update, or the exception of the first step that fails
LeadershipUpdate(work_orders, deals) ==
    LET revenue_col == ColumnAt(work_orders, col_Amount)
        billed_col == ColumnAt(work_orders, col_Billed)
        wo_status_col == ColumnAt(work_orders, col_ExecutionStatus)
        value_col == ColumnAt(deals, col_MaskedDealValue)
        stage_col == ColumnAt(deals, col_DealStage)
        status_col == ColumnAt(deals, col_DealStatus)
        wo_sector_col == ColumnAt(work_orders, col_Sector)
        deal_sector_col == ColumnAt(deals, col_SectorService)
        total_revenue == NumericSum(work_orders, revenue_col)
        total_billed == NumericSum(work_orders, billed_col)
        wo_status_counts == value_counts(ColumnValues(work_orders, wo_status_col))
        billing_percentage == BillingPercentage(total_billed, total_revenue)
        deal_value == NumericSum(deals, value_col)
        status_counts == value_counts(ColumnValues(deals, status_col))
        won_deals == CountOf(status_counts, txt_Won)
        lost_deals == CountOf(status_counts, txt_Lost)
        win_rate == WinRate(won_deals, lost_deals)
        wo_sectors == value_counts(ColumnValues(work_orders, wo_sector_col))
        deal_sectors == value_counts(ColumnValues(deals, deal_sector_col))
        unbilled == total_revenue - total_billed
        missing == MissingValueConcern(deals, value_col)
    IN  IF revenue_col = 0 \/ billed_col = 0 \/ wo_status_col = 0 THEN KeyError
        ELSE IF billing_percentage = DivisionByZero THEN ZeroDivisionError
        ELSE IF value_col = 0 \/ stage_col = 0 \/ status_col = 0 THEN KeyError
        ELSE IF win_rate = DivisionByZero THEN ZeroDivisionError
        ELSE IF wo_sector_col = 0 \/ deal_sector_col = 0 THEN KeyError
        ELSE IF Len(missing) > 0 /\ missing[1].text = DivisionByZero THEN ZeroDivisionError
        ELSE [kind |-> "update",
              date |-> "today",
              work_orders_summary |->
                  [total_orders |-> Len(work_orders.rows),
                   total_value |-> format_number(total_revenue),
                   billed_value |-> format_number(total_billed),
                   billing_percentage |-> billing_percentage,
                   completed |-> CountOf(wo_status_counts, txt_Completed),
                   ongoing |-> CountOf(wo_status_counts, txt_Ongoing)
                                + CountOf(wo_status_counts, txt_ExecutedUntilCurrentMonth)],
              pipeline_summary |->
                  [total_deals |-> Len(deals.rows),
                   total_value |-> format_number(deal_value),
                   won |-> won_deals,
                   lost |-> lost_deals,
                   open |-> CountOf(status_counts, txt_Open),
                   win_rate |-> win_rate,
                   stages |-> value_counts(ColumnValues(deals, stage_col))],
              sector_insights |->
                  [work_orders_by_sector |-> wo_sectors,
                   deals_by_sector |-> deal_sectors,
                   top_sector_work_orders |-> TopOf(wo_sectors),
                   top_sector_deals |-> TopOf(deal_sectors)],
              concerns |->
                  (IF unbilled > 0
                   THEN <<[concern |-> "unbilled", count |-> 0,
                           text |-> format_number(unbilled)]>>
                   ELSE <<>>) \o missing,
              recommendations |-> <<>>]

\* work orders of the boards behind a leadership update: amount and billed value
WorkOrderKinds ==
    {<<txt_Mining, txt_Completed, None, None>>,
     <<txt_Mining, txt_Ongoing, txt_NA, txt_100>>,
     <<txt_Urban, txt_Completed, txt_250, txt_100>>,
     <<txt_Urban, txt_Ongoing, txt_100, None>>}

\* deals of those boards: status and value
DealKinds ==
    {<<txt_Mining, txt_Proposal, txt_Won, txt_250>>,
     <<txt_Mining, txt_Proposal, txt_Lost, None>>,
     <<txt_Urban, txt_Proposal, txt_Open, None>>,
     <<txt_Urban, txt_Proposal, txt_Open, txt_250>>}

LeadershipColumns ==
    [work_orders |-> <<[id |-> ColumnIds[1], title |-> col_Sector],
                       [id |-> ColumnIds[2], title |-> col_ExecutionStatus],
                       [id |-> ColumnIds[3], title |-> col_Amount],
                       [id |-> ColumnIds[4], title |-> col_Billed]>>,
     deals |-> <<[id |-> ColumnIds[1], title |-> col_SectorService],
                 [id |-> ColumnIds[2], title |-> col_DealStage],
                 [id |-> ColumnIds[3], title |-> col_DealStatus],
                 [id |-> ColumnIds[4], title |-> col_MaskedDealValue]>>]

\* the boards of a leadership update: up to MaxRows items of the kinds above (none
\* at all is a board without items), a board without the amount columns, and a
\* request that fails
LeadershipBoards ==
    [s \in Sources |->
        {[columns |-> LeadershipColumns[s],
          pages |-> <<Page("ok", [i \in 1..Len(rs) |->
                                    BoardItem(txt_Item, ColumnIds, rs[i])])>>] :
            rs \in SeqsUpTo(IF s = "work_orders" THEN WorkOrderKinds ELSE DealKinds,
                            MaxRows)}
        \cup {[columns |-> SubSeq(LeadershipColumns[s], 1, 2),
               pages |-> <<Page("ok", <<BoardItem(txt_Item, SubSeq(ColumnIds, 1, 2),
                                                  <<txt_Mining, txt_Completed>>)>>)>>],
              [columns |-> LeadershipColumns[s], pages |-> <<Page("timeout", <<>>)>>]}]

\* the whole of generate_leadership_update: the two gets, then the update
generate_leadership_update ==
    /\ \E remote_wo \in Answers("work_orders", FALSE, LeadershipBoards.work_orders),
          remote_deals \in Answers("deals", FALSE, LeadershipBoards.deals) :
            LET wo == ReadSource(cache, heap, stored, "work_orders", remote_wo)
                dl == ReadSource(wo.cache, wo.heap, wo.stored, "deals", remote_deals)
                after == IF wo.raised THEN wo ELSE dl
            IN  /\ cache' = after.cache
                /\ heap' = after.heap
                /\ stored' = after.stored
                /\ last' = [after.last EXCEPT !.op = "leadership"]
                /\ ret' = IF after.raised THEN RaisedRet
                          ELSE LeadershipUpdate(wo.df, dl.df)
    /\ pc' = "generate_leadership_update"
    /\ UNCHANGED <<arg, held>>

InitLeadership ==
    /\ IdleCache
    /\ pc = "idle"
    /\ arg = NoRet
    /\ ret = NoRet

NextLeadership == generate_leadership_update

SpecLeadership == InitLeadership /\ [][NextLeadership]_vars

LeadershipCalled == pc = "generate_leadership_update"

LeadershipReturned == LeadershipCalled /\ ret.kind = "update"

\* the sum of the values of a column of a cached source that are whole numbers
ParsedTotal(source, column) ==
    LET df == CachedTable(source)
        c == ColumnAt(df, column)
        Parses(v) == v # <<>> /\ AllDigits(v)
    IN  SeqSum([i \in 1..Len(SelectSeq(ColumnValues(df, c), Parses)) |->
                    Decimal(SelectSeq(ColumnValues(df, c), Parses)[i])])

\* the number of rows of a cached source with the value v in a column
RowsWith(source, column, v) ==
    LET df == CachedTable(source)
        c == ColumnAt(df, column)
    IN  Cardinality({i \in 1..Len(df.rows) : df.rows[i].cells[c] = v})

C16_AbsentColumnNeverRaises ==
    (LeadershipCalled /\ last.outcome = "returned") => ret.kind # "raised"

\* the number of values of a column of a cached source that are whole numbers
ParsedCount(source, column) ==
    LET df == CachedTable(source)
        c == ColumnAt(df, column)
    IN  Cardinality({i \in 1..Len(df.rows) :
                        df.rows[i].cells[c] # <<>> /\ AllDigits(df.rows[i].cells[c])})

ZeroAmount == <<"<rupee>", "0">>

\* C17: an amount column without a single parseable value is never reported as a
\* total of zero. Here for the leadership update: its total value, billed value and
\* pipeline value are not a zero amount when their column has no number.
C17_NoZeroTotalWithoutNumbers ==
    LeadershipReturned =>
        /\ ParsedCount("work_orders", col_Amount) = 0 =>
                ret.work_orders_summary.total_value # ZeroAmount
        /\ ParsedCount("work_orders", col_Billed) = 0 =>
                ret.work_orders_summary.billed_value # ZeroAmount
        /\ ParsedCount("deals", col_MaskedDealValue) = 0 =>
                ret.pipeline_summary.total_value # ZeroAmount

-----------------------------------------------------------------------------
(* agent.answer_question *)

LeadershipTerms ==
    {<<"l","e","a","d","e","r","s","h","i","p">>,
     <<"u","p","d","a","t","e">>,
     <<"s","u","m","m","a","r","y">>,
     <<"r","e","p","o","r","t">>,
     <<"b","o","a","r","d"," ","m","e","e","t","i","n","g">>,
     <<"e","x","e","c","u","t","i","v","e">>}

AnswerWords ==
    {<<"s","u","m","m","a","r","y">>,
     <<"p","i","p","e","l","i","n","e">>,
     <<"r","e","v","e","n","u","e">>,
     <<"r","e","p","o","r","t">>}

kw_api_key == <<"a","p","i","_","k","e","y">>
msg_FetchFailed == <<"M","o","n","d","a","y",".","c","o","m"," ","A","P","I"," ","e","r","r","o","r">>
msg_MaskedDealValue == <<"'","M","a","s","k","e","d"," ","D","e","a","l"," ","v","a","l","u","e","'">>
msg_InvalidKey == <<"I","n","v","a","l","i","d"," ","A","P","I","_","K","E","Y">>
msg_RateLimit == <<"R","a","t","e"," ","l","i","m","i","t"," ","r","e","a","c","h","e","d">>
txt_Answer == <<"R","e","v","e","n","u","e"," ","i","s"," ","u","p">>

\* except Exception as e: the text returned for the message of the exception
OnException_reraise(error_msg) == [kind |-> "raised", text |-> "exception", detail |-> error_msg]

OnException(error_msg) ==
    IF Contains(lower(error_msg), kw_api_key)
    THEN [kind |-> "text", text |-> "api_key_error", detail |-> <<>>]
    ELSE [kind |-> "text", text |-> "error", detail |-> error_msg]

\* what client.chat.completions.create may do: answer, or raise with a message
GenerationOutcomes ==
    {[outcome |-> "ok", text |-> txt_Answer],
     [outcome |-> "raises", text |-> msg_InvalidKey],
     [outcome |-> "raises", text |-> msg_RateLimit]}

\* the boards behind an answer: work orders and deals with every column the reports
\* read, deals without the deal value column, and requests that fail
AnswerBoards ==
    [work_orders |->
        {[columns |-> LeadershipColumns.work_orders,
          pages |-> <<Page("ok",
              <<BoardItem(txt_WO1, ColumnIds,
                          <<txt_Mining, txt_Completed, txt_250, txt_100>>)>>)>>],
         [columns |-> LeadershipColumns.work_orders,
          pages |-> <<Page("timeout", <<>>)>>]},
     deals |->
        {[columns |-> LeadershipColumns.deals,
          pages |-> <<Page("ok",
              <<BoardItem(txt_D1, ColumnIds,
                          <<txt_Urban, txt_Proposal, txt_Won, txt_250>>)>>)>>],
         [columns |-> SubSeq(LeadershipColumns.deals, 1, 3),
          pages |-> <<Page("ok",
              <<BoardItem(txt_D1, SubSeq(ColumnIds, 1, 3),
                          <<txt_Urban, txt_Proposal, txt_Won>>)>>)>>],
         [columns |-> LeadershipColumns.deals, pages |-> <<Page("errors", <<>>)>>]}]

AnswerQuestions == {JoinWords(ws) : ws \in SeqsUpTo(AnswerWords, MaxWords)}

\* the body of answer_question once the two gets of the analysis gave wo and dl and
\* with the text generation behaving as generation: the text returned, with the
\* number of requests made to each collaborator and the step that failed
AnswerOf(question, wo, dl, generation) ==
    LET is_leadership_update == AnyTerm(LeadershipTerms, lower(question))
        steps == [fetches_work_orders |-> wo.last.fetches,
                  fetches_deals |-> 0, generations |-> 0, failed |-> "none"]
        read == [steps EXCEPT !.fetches_deals = dl.last.fetches]
        Failure(s, step, error_msg) ==
            [answer |-> OnException(error_msg), steps |-> [s EXCEPT !.failed = step]]
    IN  IF wo.raised THEN Failure(steps, "ingestion", msg_FetchFailed)
        ELSE IF dl.raised THEN Failure(read, "ingestion", msg_FetchFailed)
        ELSE IF Analyze(question, wo.df, dl.df).kind = "raised"
        THEN Failure(read, "analysis", msg_MaskedDealValue)
        ELSE IF is_leadership_update /\ LeadershipUpdate(wo.df, dl.df).kind = "raised"
        THEN Failure(read, "analysis", msg_MaskedDealValue)
        ELSE IF generation.outcome # "ok"
        THEN Failure([read EXCEPT !.generations = 1], "generation", generation.text)
        ELSE [answer |-> [kind |-> "text", text |-> "answer", detail |-> generation.text],
              steps |-> [read EXCEPT !.generations = 1]]

\* the user's question reaches answer_question
UserAsks ==
    /\ pc \in {"idle", "answered"}
    /\ \E question \in AnswerQuestions : arg' = [question |-> question]
    /\ pc' = "answer_question"
    /\ ret' = NoRet
    /\ last' = NoCall
    /\ UNCHANGED <<cache, heap, held, stored>>

\* the whole of answer_question on the question asked
answer_question ==
    /\ pc = "answer_question"
    /\ \E remote_wo \in Answers("work_orders", FALSE, AnswerBoards.work_orders),
          remote_deals \in Answers("deals", FALSE, AnswerBoards.deals),
          generation \in GenerationOutcomes :
            LET wo == ReadSource(cache, heap, stored, "work_orders", remote_wo)
                dl == ReadSource(wo.cache, wo.heap, wo.stored, "deals", remote_deals)
                after == IF wo.raised THEN wo ELSE dl
                result == AnswerOf(arg.question, wo, dl, generation)
            IN  /\ cache' = after.cache
                /\ heap' = after.heap
                /\ stored' = after.stored
                /\ last' = [after.last EXCEPT !.op = "answer"]
                /\ ret' = [result.answer EXCEPT !.detail = <<result.steps, @>>]
    /\ pc' = "answered"
    /\ UNCHANGED <<arg, held>>

InitAnswer ==
    /\ IdleCache
    /\ pc = "idle"
    /\ arg = NoRet
    /\ ret = NoRet

NextAnswer == UserAsks \/ answer_question

SpecAnswer == InitAnswer /\ [][NextAnswer]_vars

QuestionAnswered == pc = "answered"

\* C18: answer_question never raises: whatever the loading of the sources, the
\* analysis and the text generation do, it returns a text, which is the generated
\* answer only when every step succeeded and an error message otherwise; no step
\* is made a second time.
C18_AnswerNeverRaises ==
    QuestionAnswered =>
        LET steps == ret.detail[1]
        IN  /\ ret.kind = "text"
            /\ ret.text \in {"answer", "error", "api_key_error"}
            /\ ret.text = "answer" <=> steps.failed = "none"
            /\ ret.text = "answer" => ret.detail[2] = txt_Answer /\ steps.generations = 1
            /\ steps.fetches_work_orders <= 1
            /\ steps.fetches_deals <= 1
            /\ steps.generations <= 1
            /\ steps.failed = "ingestion" => steps.generations = 0

\* a question was answered with an error message after the one request for a
\* generated text failed
C18_Witness ==
    /\ QuestionAnswered
    /\ ret.kind = "text"
    /\ ret.text = "error"
    /\ ret.detail[1].failed = "generation"
    /\ ret.detail[1].generations = 1

-----------------------------------------------------------------------------
(* Column resolution by role, as the four operations of query_engine do it *)

\* the most columns a table of this section has
MaxCols == 2

\* the columns a table may have, and the value its one row has in each
RoleColumns ==
    {col_ItemName, col_Sector, col_SectorService, col_DealStage, col_DealStatus,
     col_CloseDate, col_ProbableStartDate, col_MaskedDealValue, col_Amount}

CellOfColumn(name) ==
    CASE name = col_ItemName -> txt_Item
      [] name = col_Sector -> txt_Mining
      [] name = col_SectorService -> txt_Urban
      [] name = col_DealStage -> txt_Proposal
      [] name = col_DealStatus -> txt_Won
      [] name = col_CloseDate -> d_2026_03_31
      [] name = col_ProbableStartDate -> d_2026_04_01
      [] name = col_MaskedDealValue -> txt_250
      [] name = col_Amount -> txt_100

\* the one-row tables over up to MaxCols different columns, in any order
RoleTables ==
    {MakeTable(cols, <<[k \in 1..Len(cols) |-> CellOfColumn(cols[k])]>>) :
        cols \in {s \in SeqsUpTo(RoleColumns, MaxCols) :
                    \A i, j \in 1..Len(s) : s[i] = s[j] => i = j}}

Roles == {"sector", "status", "date", "revenue"}

InitResolve ==
    /\ IdleCache
    /\ pc = "resolve"
    /\ arg \in [df : RoleTables, role : Roles]
    /\ ret = NoRet

\* the operation of the role on the table, with the column left to be resolved:
\* filter_by_sector(df, "mining"), the status breakdown, filter_by_date_range(df,
\* None, "2026-03-31") and get_revenue_metrics(df)
ResolveByRole ==
    /\ pc = "resolve"
    /\ ret' = CASE arg.role = "sector" ->
                    [kind |-> "table", df |-> filter_by_sector(arg.df, txt_mining)]
                [] arg.role = "status" -> status_breakdown(arg.df)
                [] arg.role = "date" ->
                    [kind |-> "table",
                     df |-> filter_by_date_range(arg.df, None, d_2026_03_31, None)]
                [] arg.role = "revenue" -> get_revenue_metrics(arg.df, None)
    /\ pc' = "resolved"
    /\ UNCHANGED <<arg, cacheVars>>

NextResolve == ResolveByRole

SpecResolve == InitResolve /\ [][NextResolve]_vars

RoleKeywords ==
    [sector |-> {kw_sector},
     status |-> {kw_status, kw_stage, kw_state},
     date |-> {kw_date},
     revenue |-> {kw_value, kw_amount, kw_revenue, kw_total, kw_price}]

\* the columns of the table given whose lower-cased name contains a keyword of the
\* role given, by position
MatchingColumns ==
    {i \in 1..Len(arg.df.columns) :
        \E t \in RoleKeywords[arg.role] : Contains(lower(arg.df.columns[i]), t)}

\* C19: the column resolved for a role is the first column, in the table's order,
\* whose lower-cased name contains any keyword of the role, whichever keyword that
\* is; with no such column nothing is resolved, and the sector and date filters
\* return the table unchanged.
C19_FirstMatchingColumn ==
    pc = "resolved" =>
        IF MatchingColumns = {}
        THEN CASE arg.role \in {"sector", "date"} -> ret.df = arg.df
               [] arg.role = "status" -> ret.kind = "error"
               [] arg.role = "revenue" ->
                    ret.kind = "error" /\ ret.error = err_NoRevenueColumn
        ELSE \E c \in MatchingColumns :
                /\ \A k \in MatchingColumns : c <= k
                /\ CASE arg.role = "sector" ->
                          Len(ret.df.rows)
                            = IF Contains(lower(arg.df.rows[1].cells[c]), txt_mining)
                              THEN 1 ELSE 0
                     [] arg.role = "status" -> ret.column = arg.df.columns[c]
                     [] arg.role = "date" ->
                          Len(ret.df.rows)
                            = IF arg.df.rows[1].cells[c] = d_2026_03_31 THEN 1 ELSE 0
                     [] arg.role = "revenue" ->
                          ret.kind = "metrics" /\ ret.column_used = arg.df.columns[c]

\* the status column was resolved on a table with the stage before the status: the
\* stage column is used
C19_Witness ==
    /\ pc = "resolved"
    /\ arg.role = "status"
    /\ arg.df.columns = <<col_DealStage, col_DealStatus>>
    /\ ret.column = col_DealStage

-----------------------------------------------------------------------------
(* monday_client.fetch_board_items, one request of its loop at a time *)

\* the most requests one fetch of the model makes
MaxPages == 3

cursor_1 == <<"c","u","r","-","1">>
cursor_2 == <<"c","u","r","-","2">>

\* what the API may answer to one request: a page of items with the cursor of the
\* next page, with no cursor (null or empty) when it is the last, an error list, or
\* nothing before the timeout
PageResponses ==
    [outcome : {"ok"},
     items : {<<>>, <<WO_A>>, <<WO_B>>},
     cursor : {None, <<>>, cursor_1, cursor_2}]
    \cup [outcome : {"errors", "timeout"}, items : {<<>>}, cursor : {None}]

\* all_items = items_page["items"]: the page's items in place of those collected
Extend_replace(all_items, items) == items

\* all_items.extend(items_page["items"])
Extend(all_items, items) == all_items \o items

\* if not cursor: break
LoopEnds(cursor) == cursor = None \/ cursor = <<>>

\* all_items = [], cursor = None, nothing requested yet
InitFetch ==
    /\ IdleCache
    /\ pc = "fetching"
    /\ arg = [cursor |-> None, all_items |-> <<>>, requests |-> <<>>]
    /\ ret = NoRet

\* one pass of the while loop: the request with the cursor held, and the response
RequestPage ==
    /\ pc = "fetching"
    /\ Len(arg.requests) < MaxPages
    /\ \E response \in PageResponses :
        LET request == [cursor |-> arg.cursor, response |-> response]
            all_items == Extend(arg.all_items, response.items)
        IN  IF response.outcome # "ok"
            THEN /\ pc' = "raised"
                 /\ ret' = Raised
                 /\ arg' = [arg EXCEPT !.requests = Append(@, request)]
            ELSE /\ arg' = [cursor |-> response.cursor, all_items |-> all_items,
                            requests |-> Append(arg.requests, request)]
                 /\ IF LoopEnds(response.cursor)
                    THEN /\ pc' = "returned"
                         /\ ret' = [raised |-> FALSE, columns |-> WorkOrderColumns,
                                    items |-> all_items]
                    ELSE /\ pc' = "fetching"
                         /\ ret' = NoRet
    /\ UNCHANGED cacheVars

NextFetch == RequestPage

SpecFetch == InitFetch /\ [][NextFetch]_vars

\* the items of the responses to the first n requests, in the order of the requests
RECURSIVE ItemsOfRequests(_)
ItemsOfRequests(n) ==
    IF n = 0 THEN <<>> ELSE ItemsOfRequests(n - 1) \o arg.requests[n].response.items

HasCursor(response) == response.cursor # None /\ response.cursor # <<>>

\* C20: fetch_board_items follows the cursor until a page comes without one and
\* then returns the items of all pages fetched, in page order, each page requested
\* once with the cursor the page before it returned; a response with an error list
\* makes it raise, and none of the items collected before is returned.
C20_AllPagesOrNothing ==
    LET n == Len(arg.requests)
    IN  /\ pc = "returned" =>
            /\ n >= 1
            /\ ~HasCursor(arg.requests[n].response)
            /\ \A i \in 1..(n - 1) : HasCursor(arg.requests[i].response)
            /\ arg.requests[1].cursor = None
            /\ \A i \in 2..n : arg.requests[i].cursor = arg.requests[i - 1].response.cursor
            /\ ret.raised = FALSE
            /\ ret.items = ItemsOfRequests(n)
        /\ pc = "raised" =>
            /\ arg.requests[n].response.outcome # "ok"
            /\ ret = Raised
        /\ (pc = "fetching" /\ n >= 1) =>
            /\ HasCursor(arg.requests[n].response)
            /\ ret = NoRet

\* three pages were fetched, with two cursors followed, and their three items
\* returned
C20_Witness ==
    /\ pc = "returned"
    /\ Len(arg.requests) = 3
    /\ arg.requests[2].cursor = cursor_1
    /\ arg.requests[3].cursor = cursor_2
    /\ ret.items = <<WO_A, WO_B, WO_A>>

-----------------------------------------------------------------------------
(* The chat front-end (app.py): st.session_state and the runs of the script *)

\* Under this specification arg is st.session_state,
\*     [messages, pending_question, data_loaded],
\* and ret is the record of the last run of the script: the history the run began
\* with, the calls it made to answer_question and the statement at which the run
\* was stopped, if it was, with the question that was queued and the question that
\* was typed when the run began.

\* the number of questions a conversation holds
MaxTurns == 5

\* the number of runs a conversation sees stopped after the user's message
MaxStops == 1

\* messages[:-1][-6:] (app.py) and conversation_history[-6:] (agent.py)
ContextMessages == 6

q_PipelineLooking ==
    <<"H","o","w","'","s"," ","o","u","r"," ","p","i","p","e",
      "l","i","n","e"," ","l","o","o","k","i","n","g","?">>
q_TotalRevenue == <<"t","o","t","a","l"," ","r","e","v","e","n","u","e">>

\* the question a button queues, and the question typed into st.chat_input
ButtonQuestions == {q_PipelineLooking}
TypedQuestions == {q_TotalRevenue}

\* the fixed parts of the texts the program builds, each kept whole
txt_SystemPrompt == <<"<system prompt>">>
txt_DataContext == <<"<data context>">>
txt_QuestionPrefix == <<"Question: ">>
txt_ApiKeyError == <<"Error: OpenAI API key is invalid or missing.">>
txt_ErrorWhileProcessing == <<"I encountered an error while processing your question: ">>
txt_AppError == <<"I encountered an error: ">>

\* what each board answers during one run of the script
ChatBoards ==
    [work_orders |->
        {[columns |-> LeadershipColumns.work_orders,
          pages |-> <<Page("ok",
              <<BoardItem(txt_WO1, ColumnIds,
                          <<txt_Mining, txt_Completed, txt_250, txt_100>>)>>)>>]},
     deals |->
        {[columns |-> LeadershipColumns.deals,
          pages |-> <<Page("ok",
              <<BoardItem(txt_D1, ColumnIds,
                          <<txt_Urban, txt_Proposal, txt_Won, txt_250>>)>>)>>]}]

ChatGenerations ==
    {g \in GenerationOutcomes : g.text \in {txt_Answer, msg_RateLimit}}

\* the statements at which the Streamlit runtime can stop a run that is handling a
\* question, because the user acted on a widget meanwhile: every st.* call checks for
\* a requested rerun and raises an exception that "except Exception" does not catch
StopPoints == {"none", "chat_message_user", "chat_message_assistant", "markdown_response"}

Message(role, content) == [role |-> role, content |-> content]

\* s[:-1]
AllButLast(s) == SubSeq(s, 1, Len(s) - 1)

\* s[-n:]
LastN(s, n) == SubSeq(s, IF Len(s) > n THEN Len(s) - n + 1 ELSE 1, Len(s))

\* the list comprehension over st.session_state.messages[:-1][-6:]
ConversationHistory(messages) == LastN(AllButLast(messages), ContextMessages)

\* the messages answer_question sends: the system prompt, the last six entries of
\* conversation_history, the question with its data context
BuildMessages(question, conversation_history) ==
    <<Message("system", txt_SystemPrompt)>>
        \o LastN(conversation_history, ContextMessages)
        \o <<Message("user", txt_QuestionPrefix \o question \o txt_DataContext)>>

\* the text answer_question returns
ResponseText(answer) ==
    IF answer.text = "answer" THEN answer.detail
    ELSE IF answer.text = "api_key_error" THEN txt_ApiKeyError
    ELSE txt_ErrorWhileProcessing \o answer.detail

\* the content of the assistant's message: response, or error_msg when
\* answer_question raised
AssistantContent(answer) ==
    IF answer.kind = "raised" THEN txt_AppError \o answer.detail
    ELSE ResponseText(answer)

NoRun == [kind |-> "run", before |-> <<>>, queued |-> None, typed |-> None,
          calls |-> <<>>, stopped |-> "none"]

\* the cache as one value, with the raised flag and the table of a get
Memory(c, hp, sto, l) ==
    [cache |-> c, heap |-> hp, stored |-> sto, last |-> l, raised |-> FALSE,
     df |-> NoTable]

\* the board is asked only for a source that is not cached
Served(c, source, remote) == IF c[source] # NoObj THEN NoRemote ELSE remote

\* get_work_orders_df() or get_deals_df() on the cache mem, or nothing when the
\* statement is not reached
GetUnless(skipped, mem, source, remotes) ==
    IF skipped THEN [mem EXCEPT !.raised = FALSE, !.df = NoTable]
    ELSE ReadSource(mem.cache, mem.heap, mem.stored, source,
                    Served(mem.cache, source, remotes[source]))

\* the sidebar: get_data_summary() unless the data is already loaded; an exception
\* leaves data_loaded False
LoadSidebar(session, wo, dl) ==
    IF session.data_loaded THEN session
    ELSE [session EXCEPT !.data_loaded = ~(wo.raised \/ dl.raised)]

\* the body shared by "if st.session_state.pending_question:" and
\* "if prompt := st.chat_input(...)", statement by statement: the session once the
\* user's message is appended (asked), the call to answer_question, which returned
\* result and left the cache as called, and the session once the assistant's
\* message is appended (done)
HandlePrompt(session, entered, prompt, called, result) ==
    LET asked == Append(session.messages, Message("user", prompt))
        response == AssistantContent(result.answer)
    IN  [begun |-> session,
         entered |-> entered,
         asked |-> [session EXCEPT !.messages = asked],
         call |-> [question |-> prompt,
                   conversation_history |-> ConversationHistory(asked),
                   sent |-> IF result.steps.generations = 1
                            THEN BuildMessages(prompt, ConversationHistory(asked))
                            ELSE <<>>,
                   response |-> response],
         called |-> called,
         done |-> [session EXCEPT !.messages =
                       Append(asked, Message("assistant", response))]]

\* the state a run leaves when it handles a prompt and is stopped at stops_at
StopAt(handled, stops_at) ==
    IF stops_at = "chat_message_user"
    THEN [session |-> handled.begun, mem |-> handled.entered, calls |-> <<>>]
    ELSE IF stops_at = "chat_message_assistant"
    THEN [session |-> handled.asked, mem |-> handled.entered, calls |-> <<>>]
    ELSE IF stops_at = "markdown_response"
    THEN [session |-> handled.asked, mem |-> handled.called, calls |-> <<handled.call>>]
    ELSE [session |-> handled.done, mem |-> handled.called, calls |-> <<handled.call>>]

\* room in the conversation for one more question
RoomFor(messages) == Len(messages) + 2 <= 2 * MaxTurns

\* the user's messages that no message of the assistant follows
Unanswered(messages) ==
    {i \in 1..Len(messages) :
        /\ messages[i].role = "user"
        /\ i = Len(messages) \/ messages[i + 1].role # "assistant"}

\* room in the conversation for one more stopped run
MayStop(messages) == Cardinality(Unanswered(messages)) < MaxStops

InitChat ==
    /\ IdleCache
    /\ pc = "rerun"
    /\ arg = [messages |-> <<>>, pending_question |-> None, data_loaded |-> FALSE]
    /\ ret = NoRun

\* the run that st.rerun() starts, from the first line of the script to its last,
\* or to the statement at which it is stopped: the sidebar, then the pending
\* question if one is queued (the data tabs at the foot of the page read tables
\* that are cached by then)
RunScript ==
    /\ pc = "rerun"
    /\ \E remote_wo \in ChatBoards.work_orders, remote_deals \in ChatBoards.deals,
          generation \in ChatGenerations :
        \E remotes \in {[work_orders |-> remote_wo, deals |-> remote_deals]} :
        \E mem \in {Memory(cache, heap, stored, last)} :
        \E side_wo \in {GetUnless(arg.data_loaded, mem, "work_orders", remotes)} :
        \E side_dl \in {GetUnless(arg.data_loaded \/ side_wo.raised, side_wo,
                                  "deals", remotes)} :
        \E session \in {LoadSidebar(arg, side_wo, side_dl)} :
        \E queued \in {session.pending_question} :
        \E wo \in {GetUnless(queued = None, side_dl, "work_orders", remotes)} :
        \E dl \in {GetUnless(queued = None \/ wo.raised, wo, "deals", remotes)} :
        \E handled \in {IF queued = None THEN <<>>
                        ELSE <<HandlePrompt([session EXCEPT !.pending_question = None],
                                            side_dl, queued, dl,
                                            AnswerOf(queued, wo, dl, generation))>>} :
        \E stops_at \in IF queued = None THEN {"none"} ELSE StopPoints :
        \E run \in {IF queued = None
                    THEN [session |-> session, mem |-> side_dl, calls |-> <<>>]
                    ELSE StopAt(handled[1], stops_at)} :
            /\ stops_at # "none" => MayStop(arg.messages)
            /\ arg' = run.session
            /\ cache' = run.mem.cache
            /\ heap' = run.mem.heap
            /\ stored' = run.mem.stored
            /\ last' = run.mem.last
            /\ ret' = [kind |-> "run", before |-> arg.messages, queued |-> queued,
                       typed |-> None, calls |-> run.calls, stopped |-> stops_at]
    /\ pc' = "idle"
    /\ UNCHANGED held

\* an example question or a quick action is clicked: the run it starts queues the
\* question and calls st.rerun()
ClickQuestion ==
    /\ pc = "idle"
    /\ RoomFor(arg.messages)
    /\ \E q \in ButtonQuestions, remote_wo \in ChatBoards.work_orders,
          remote_deals \in ChatBoards.deals :
        \E remotes \in {[work_orders |-> remote_wo, deals |-> remote_deals]} :
        \E mem \in {Memory(cache, heap, stored, last)} :
        \E side_wo \in {GetUnless(arg.data_loaded, mem, "work_orders", remotes)} :
        \E side_dl \in {GetUnless(arg.data_loaded \/ side_wo.raised, side_wo,
                                  "deals", remotes)} :
            /\ arg' = [LoadSidebar(arg, side_wo, side_dl) EXCEPT !.pending_question = q]
            /\ cache' = side_dl.cache
            /\ heap' = side_dl.heap
            /\ stored' = side_dl.stored
            /\ last' = side_dl.last
    /\ pc' = "rerun"
    /\ UNCHANGED <<held, ret>>

\* a question is submitted in st.chat_input: the run it starts handles it
SubmitChatInput ==
    /\ pc = "idle"
    /\ RoomFor(arg.messages)
    /\ \E prompt \in TypedQuestions, remote_wo \in ChatBoards.work_orders,
          remote_deals \in ChatBoards.deals, generation \in ChatGenerations :
        \E remotes \in {[work_orders |-> remote_wo, deals |-> remote_deals]} :
        \E mem \in {Memory(cache, heap, stored, last)} :
        \E side_wo \in {GetUnless(arg.data_loaded, mem, "work_orders", remotes)} :
        \E side_dl \in {GetUnless(arg.data_loaded \/ side_wo.raised, side_wo,
                                  "deals", remotes)} :
        \E wo \in {GetUnless(FALSE, side_dl, "work_orders", remotes)} :
        \E dl \in {GetUnless(wo.raised, wo, "deals", remotes)} :
        \E handled \in {HandlePrompt(LoadSidebar(arg, side_wo, side_dl), side_dl,
                                     prompt, dl,
                                     AnswerOf(prompt, wo, dl, generation))} :
        \E stops_at \in StopPoints :
        \E run \in {StopAt(handled, stops_at)} :
            /\ stops_at # "none" => MayStop(arg.messages)
            /\ arg' = run.session
            /\ cache' = run.mem.cache
            /\ heap' = run.mem.heap
            /\ stored' = run.mem.stored
            /\ last' = run.mem.last
            /\ ret' = [kind |-> "run", before |-> arg.messages, queued |-> None,
                       typed |-> prompt, calls |-> run.calls, stopped |-> stops_at]
    /\ pc' = "idle"
    /\ UNCHANGED held

\* "Refresh Data" is clicked: clear_cache(), data_loaded = False, st.rerun()
ClickRefresh ==
    /\ pc = "idle"
    /\ cache' = [s \in Sources |-> NoObj]
    /\ heap' = Collect(heap, cache', held)
    /\ last' = [NoCall EXCEPT !.op = "clear"]
    /\ arg' = [arg EXCEPT !.data_loaded = FALSE]
    /\ pc' = "rerun"
    /\ UNCHANGED <<held, stored, ret>>

\* "Clear Chat History" is clicked: the run it starts reaches the button, empties
\* the history and calls st.rerun()
ClickClearChat ==
    /\ pc = "idle"
    /\ arg.messages # <<>>
    /\ \E remote_wo \in ChatBoards.work_orders, remote_deals \in ChatBoards.deals :
        \E remotes \in {[work_orders |-> remote_wo, deals |-> remote_deals]} :
        \E mem \in {Memory(cache, heap, stored, last)} :
        \E side_wo \in {GetUnless(arg.data_loaded, mem, "work_orders", remotes)} :
        \E side_dl \in {GetUnless(arg.data_loaded \/ side_wo.raised, side_wo,
                                  "deals", remotes)} :
            /\ arg' = [LoadSidebar(arg, side_wo, side_dl) EXCEPT !.messages = <<>>]
            /\ cache' = side_dl.cache
            /\ heap' = side_dl.heap
            /\ stored' = side_dl.stored
            /\ last' = side_dl.last
    /\ pc' = "rerun"
    /\ UNCHANGED <<held, ret>>

NextChat ==
    RunScript \/ ClickQuestion \/ SubmitChatInput \/ ClickRefresh \/ ClickClearChat

SpecChat == InitChat /\ [][NextChat]_vars

\* the questions the last run took up, in the order the script handles them
QuestionsTaken ==
    (IF ret.queued # None THEN <<ret.queued>> ELSE <<>>)
        \o (IF ret.typed # None THEN <<ret.typed>> ELSE <<>>)

\* a run of the script has just ended
RunEnded == pc = "idle"

\* user and assistant entries alternate, beginning with the user's
Alternates(messages) ==
    \A i \in 1..Len(messages) :
        messages[i].role = (IF i % 2 = 1 THEN "user" ELSE "assistant")

\* the history alternates, at every moment between two runs
C21_Alternates == Alternates(arg.messages)

\* each question a run took up added the user's message and then one message of the
\* assistant, whose content is what the call to answer_question gave
C21_OneUserOneAssistant ==
    RunEnded =>
        /\ Len(arg.messages) = Len(ret.before) + 2 * Len(QuestionsTaken)
        /\ Len(ret.calls) = Len(QuestionsTaken)
        /\ SubSeq(arg.messages, 1, Len(ret.before)) = ret.before
        /\ \A k \in 1..Len(QuestionsTaken) :
            /\ arg.messages[Len(ret.before) + 2 * k - 1]
                    = Message("user", QuestionsTaken[k])
            /\ arg.messages[Len(ret.before) + 2 * k]
                    = Message("assistant", ret.calls[k].response)
            /\ ret.calls[k].question = QuestionsTaken[k]

\* the run that takes the queued question up leaves none queued, and asks
\* answer_question about it at most once
C21_PendingAnsweredOnce ==
    RunEnded =>
        /\ arg.pending_question = None
        /\ Cardinality({k \in 1..Len(ret.calls) :
                            ret.calls[k].question = ret.queued}) <= 1
        /\ Len(ret.calls) <= Len(QuestionsTaken)

\* the history passed with the k-th question of a run is the last six, or all if
\* fewer, of the messages that precede the question's own message, and those are
\* the entries answer_question sends between the system prompt and the question
C21_HistoryPrecedesQuestion ==
    RunEnded =>
        \A k \in 1..Len(ret.calls) :
            LET call == ret.calls[k]
                own == CHOOSE i \in Len(ret.before) + 1..Len(arg.messages) :
                          /\ arg.messages[i] = Message("user", call.question)
                          /\ Cardinality({j \in Len(ret.before) + 1..i :
                                             arg.messages[j].role = "user"}) = k
                n == Len(call.conversation_history)
            IN  /\ n <= ContextMessages
                /\ n = (IF own - 1 < ContextMessages THEN own - 1 ELSE ContextMessages)
                /\ \A j \in 1..n :
                      call.conversation_history[j] = arg.messages[own - 1 - n + j]
                /\ call.sent # <<>> =>
                      /\ Len(call.sent) = n + 2
                      /\ SubSeq(call.sent, 2, n + 1) = call.conversation_history

\* C21: in the chat front-end, after any sequence of submitted questions (typed or
\* queued through a button), the history alternates user and assistant entries,
\* each question having added one user message followed by one assistant message;
\* a queued question is cleared before it is handled and answered at most once;
\* and the history passed to answer_question is at most the last six messages
\* before the current question, never the question itself.
C21_ChatHistoryAlternates ==
    /\ C21_Alternates
    /\ C21_OneUserOneAssistant
    /\ C21_PendingAnsweredOnce
    /\ C21_HistoryPrecedesQuestion

=============================================================================
